---- MODULE Spec2Model ----
(***************************************************************************)
(* Model of tools/generate_chiplet_model.py (uPIMulator): the compiler     *)
(* that turns a Transformer+MoE model shape into a chiplet stage graph.    *)
(*                                                                         *)
(* Stage indices are the Python (0-based) list positions; the stage at     *)
(* Python index i is sequence[i + 1].  Stage names, which the source       *)
(* formats as strings, are kept as tuples <<label..., layer, chunk>>.      *)
(***************************************************************************)
EXTENDS Integers, Sequences, FiniteSets, TLC

VARIABLES
    args,       \* the keyword arguments of build_moe_sequence
    sequence,   \* the growing stage list
    pc,         \* position of the builder inside build_moe_sequence
    env,        \* the locals computed before the layer loop (see Env)
    layer_idx,  \* the loop variable of the layer loop
    loc,        \* the locals (prev_stage, q_done, ..., postprocess_chunks)
    planner,    \* a call of build_chunk_plan: its arguments, locals and result
    run,        \* an execution of the returned graph: stages started, finished
    ns,         \* the parsed command line and the config file it names
    gen,        \* a run of main(): position, locals of generate_chiplet_model,
                \* the returned document, the output directory and file
    built,      \* the lists build_moe_sequence returned earlier in this process
    place,      \* a sweep of an owner function over consecutive indices
    appended    \* the last call of append_stage made on its own: arguments,
                \* the list before the call and the returned index

builder == <<args, sequence, pc, env, layer_idx, loc>>
driver == <<ns, gen>>
aux == <<built, place, appended>>
vars == <<args, sequence, pc, env, layer_idx, loc, planner, run, ns, gen, built, place, appended>>

\* No call of build_chunk_plan under way; no stage started.
PlannerIdle == [pc |-> "idle"]
RunIdle == [started |-> {}, finished |-> {}]
\* main() not run.
DriverIdle == ns = [kind |-> "none"] /\ gen = [pc |-> "idle"]
\* No earlier build in this process; no sweep of an owner function.
AuxIdle == built = <<>> /\ place = [pc |-> "idle"] /\ appended = [pc |-> "idle"]

----------------------------------------------------------------------------
(* Bounds of the model. *)

MaxLayers == 2
MaxSeqLength == 3
MaxChiplets == 2
MaxExperts == 2
MaxPlan == 4

----------------------------------------------------------------------------
(* Python values and arithmetic. *)

PyNone == [kind |-> "none"]
PyInt(v) == [kind |-> "int", v |-> v]
PyList(v) == [kind |-> "list", v |-> v]

\* A finite float: the binary floating-point number m / 2^k, k >= 0.
\* 1.0 is PyFloat(1, 0), 0.5 is PyFloat(1, 1), 1.5 is PyFloat(3, 1).
PyFloat(m, k) == [kind |-> "float", m |-> m, k |-> k]

Max(a, b) == IF a >= b THEN a ELSE b
Min(a, b) == IF a <= b THEN a ELSE b

\* a // b for b > 0 (floor division)
FloorDiv(a, b) == a \div b

\* int(a / b) for b > 0: true division, then truncation toward zero
TruncDiv(a, b) == IF a >= 0 THEN a \div b ELSE -((-a) \div b)

\* int(math.ceil(a / b)) for b > 0
CeilDiv(a, b) == -((-a) \div b)

\* a % b for b > 0 (the result has the sign of the divisor)
PyMod(a, b) == a % b

\* seq[i] for a Python index i >= 0, and seq[-1]
At(seq, i) == seq[i + 1]
Last(seq) == seq[Len(seq)]

----------------------------------------------------------------------------
(* append_stage *)

\* Faulty variant: the default dependency is the stage's own position.
StageWithDeps_SelfDefault(len, stage, depends) ==
    IF depends = PyNone
    THEN IF len > 0 THEN [deps |-> <<len>>] @@ stage ELSE stage
    ELSE [deps |-> depends.v] @@ stage

\* The stage as append_stage stores it at position `len`: stage["deps"] is
\* assigned, or the dict is left as it was passed.
StageWithDeps(len, stage, depends) ==
    IF depends = PyNone
    THEN IF len > 0 THEN [deps |-> <<len - 1>>] @@ stage ELSE stage
    ELSE [deps |-> depends.v] @@ stage

\* append_stage on a list whose element i is the dict object objs[i], called
\* with the dict object obj, which holds `stage`.  The assignment to
\* stage["deps"] is made in that object, so it shows at every position of
\* the list that already holds it; the object itself is appended.
AppendStageObject(seq, objs, obj, stage, depends) ==
    LET stored == StageWithDeps(Len(seq), stage, depends)
    IN  [sequence |-> Append([i \in 1..Len(seq) |->
                                 IF objs[i] = obj THEN stored ELSE seq[i]],
                             stored),
         objs |-> Append(objs, obj)]

\* The list after a call that passes a dict object the list does not hold
\* yet, as every call of build_moe_sequence does (each passes a dict it has
\* just made); the returned index is Len of the result - 1.
AppendStage(seq, stage, depends) ==
    AppendStageObject(seq, [i \in 1..Len(seq) |-> i], 0, stage, depends).sequence

----------------------------------------------------------------------------
(* build_chunk_plan *)

\* Faulty variant: a chunk is always a full chunk.
Take_AlwaysFull(tokens_per_chunk, remaining) == tokens_per_chunk

\* take, in the loop of build_chunk_plan
Take(tokens_per_chunk, remaining) == Min(tokens_per_chunk, remaining)

RECURSIVE PlanLoop(_, _, _)
PlanLoop(tokens_per_chunk, remaining, plan) ==
    IF remaining > 0
    THEN LET take == Take(tokens_per_chunk, remaining)
         IN  PlanLoop(tokens_per_chunk, remaining - take, Append(plan, take))
    ELSE plan

PerTokenBytes(hidden_size, dtype_bytes) ==
    LET per_token_bytes == Max(hidden_size * dtype_bytes, dtype_bytes)
    IN  IF per_token_bytes <= 0 THEN dtype_bytes ELSE per_token_bytes

\* Faulty variant: the tokens of a chunk are rounded up.
TokensPerChunk_RoundedUp(hidden_size, dtype_bytes, chunk_bytes) ==
    Max(CeilDiv(chunk_bytes, PerTokenBytes(hidden_size, dtype_bytes)), 1)

TokensPerChunk(hidden_size, dtype_bytes, chunk_bytes) ==
    Max(FloorDiv(chunk_bytes, PerTokenBytes(hidden_size, dtype_bytes)), 1)

BuildChunkPlan(tokens, hidden_size, dtype_bytes, chunk_bytes) ==
    IF tokens <= 0
    THEN <<>>
    ELSE LET plan == PlanLoop(TokensPerChunk(hidden_size, dtype_bytes, chunk_bytes),
                              tokens, <<>>)
         IN  IF plan = <<>> THEN <<tokens>> ELSE plan

----------------------------------------------------------------------------
(* _normalize_deps and append_chunked_stage *)

\* isinstance(x, int): a bool is an int.
IsInt(x) == x.kind \in {"int", "bool"}

\* A list of Python ints from their values.
IntList(ids) == PyList([i \in 1..Len(ids) |-> PyInt(ids[i])])

\* None gives [], an int gives [value], a list gives its elements that are
\* ints, anything else (a string, whose elements are strings, or a value
\* that is no sequence) gives [].
NormalizeDeps(value) ==
    IF value.kind = "none" THEN <<>>
    ELSE IF IsInt(value) THEN <<value.v>>
    ELSE IF value.kind = "list"
    THEN LET ints == SelectSeq(value.v, IsInt)
         IN  [i \in 1..Len(ints) |-> ints[i].v]
    ELSE <<>>

\* Faulty variant: per_chunk_dep is ignored.
ChunkDeps_NoPerChunk(idx, prev_idx, base_list, per_chunk_dep, enforce_sequential) ==
    LET d2 == IF idx = 0 THEN base_list ELSE <<>>
    IN  IF enforce_sequential /\ prev_idx /= PyNone
        THEN Append(d2, prev_idx.v)
        ELSE d2

\* Faulty variant: enforce_sequential is ignored, no chunk is chained to the last.
ChunkDeps_NeverSequential(idx, prev_idx, base_list, per_chunk_dep, enforce_sequential) ==
    LET d1 == IF per_chunk_dep /= PyNone /\ idx < Len(per_chunk_dep.v)
              THEN NormalizeDeps(At(per_chunk_dep.v, idx))
              ELSE <<>>
    IN  IF idx = 0 /\ d1 = <<>> /\ base_list /= <<>>
        THEN d1 \o base_list
        ELSE d1

\* The dependency list append_chunked_stage computes for chunk idx, where
\* prev_idx is the index of the stage appended for chunk idx - 1.
ChunkDeps(idx, prev_idx, base_list, per_chunk_dep, enforce_sequential) ==
    LET d1 == IF per_chunk_dep /= PyNone /\ idx < Len(per_chunk_dep.v)
              THEN NormalizeDeps(At(per_chunk_dep.v, idx))
              ELSE <<>>
        d2 == IF idx = 0 /\ d1 = <<>> /\ base_list /= <<>>
              THEN d1 \o base_list
              ELSE d1
    IN  IF enforce_sequential /\ prev_idx /= PyNone
        THEN Append(d2, prev_idx.v)
        ELSE d2

RECURSIVE ChunkLoop(_, _, _, _, _, _, _, _)
ChunkLoop(seq, stages, base_list, per_chunk_dep, enforce_sequential, idx, prev_idx, chunk_ids) ==
    IF idx >= Len(stages)
    THEN [sequence |-> seq, chunk_ids |-> chunk_ids]
    ELSE LET deps == ChunkDeps(idx, prev_idx, base_list, per_chunk_dep,
                               enforce_sequential)
             dep_arg == IF deps /= <<>> THEN PyList(deps) ELSE PyNone
             seq2 == AppendStage(seq, At(stages, idx), dep_arg)
             stage_idx == Len(seq2) - 1
         IN  ChunkLoop(seq2, stages, base_list, per_chunk_dep, enforce_sequential,
                       idx + 1, PyInt(stage_idx), Append(chunk_ids, stage_idx))

\* Returns the list after the call and the returned chunk_ids.  stages is
\* stage_builder(idx, chunk_tokens) evaluated over enumerate(chunk_plan).
AppendChunkedStage(seq, stages, base_dep, per_chunk_dep, enforce_sequential) ==
    IF stages = <<>>
    THEN [sequence |-> seq, chunk_ids |-> <<>>]
    ELSE ChunkLoop(seq, stages, NormalizeDeps(base_dep), per_chunk_dep,
                   enforce_sequential, 0, PyNone, <<>>)

----------------------------------------------------------------------------
(* build_moe_sequence: values derived from the arguments *)

\* dtype_bytes and chunk_bytes as rebound at the top of the function
DtypeBytes(a) == Max(a.dtype_bytes, 1)
ChunkBytes(a) == Max(a.chunk_bytes, DtypeBytes(a))

Tokens(a) == a.seq_length * a.batch
ActivationBytesTotal(a) == Tokens(a) * a.hidden_size * DtypeBytes(a)
ProjectionWeightBytes(a) == a.hidden_size * a.hidden_size * DtypeBytes(a)
ExpertWeightBytes(a) == a.hidden_size * a.intermediate_size * DtypeBytes(a)

ChunkPlan(a) ==
    LET chunk_plan == BuildChunkPlan(Tokens(a), a.hidden_size, DtypeBytes(a),
                                     ChunkBytes(a))
    IN  IF chunk_plan = <<>> THEN <<Tokens(a)>> ELSE chunk_plan

ChunkBytePlan(a) ==
    [i \in 1..Len(ChunkPlan(a)) |->
        Max(ChunkPlan(a)[i] * a.hidden_size * DtypeBytes(a), DtypeBytes(a))]

NumChunks(a) == Len(ChunkPlan(a))

\* digital_chiplets and rram_chiplets as rebound after the embed stage
DigitalChiplets(a) == Max(a.digital_chiplets, 1)
RramChiplets(a) == Max(a.rram_chiplets, 1)

\* Faulty variant: the owner ignores the chunk.
ChunkDigitalOwner_LayerOnly(digital_chiplets, layer, chunk_idx) ==
    IF digital_chiplets <= 0
    THEN 0
    ELSE PyMod(layer, digital_chiplets)

\* The closure reads digital_chiplets when it is called, and every call
\* comes after the rebinding, so callers pass the rebound value.
ChunkDigitalOwner(digital_chiplets, layer, chunk_idx) ==
    IF digital_chiplets <= 0
    THEN 0
    ELSE PyMod(layer + chunk_idx, digital_chiplets)

\* max(int(hidden_size * digital_latency_scale), 1).  The float product of
\* an integer and m / 2^k is the exact product as long as
\* |hidden_size * m| < 2^53, which every integer of the model is; int()
\* truncates toward zero.
DigitalLatencyBase(a) ==
    Max(TruncDiv(a.hidden_size * a.digital_latency_scale.m,
                 2 ^ a.digital_latency_scale.k), 1)

ExpertOwner(expert_idx, rram_chiplets) == PyMod(expert_idx, rram_chiplets)

ExpertChips(a) ==
    [i \in 1..Max(a.num_experts, 0) |-> ExpertOwner(i - 1, RramChiplets(a))]

\* The locals of build_moe_sequence that every step reads: the arguments
\* (dtype_bytes, chunk_bytes, digital_chiplets and rram_chiplets as rebound)
\* and the values computed from them before the layer loop.
Env(a) ==
    [layers |-> a.layers, hidden_size |-> a.hidden_size,
     intermediate_size |-> a.intermediate_size, num_experts |-> a.num_experts,
     experts_per_tok |-> a.experts_per_tok, seq_length |-> a.seq_length,
     batch |-> a.batch, digital_latency_scale |-> a.digital_latency_scale,
     dtype_bytes |-> DtypeBytes(a), chunk_bytes |-> ChunkBytes(a),
     tokens |-> Tokens(a),
     activation_bytes_total |-> ActivationBytesTotal(a),
     projection_weight_bytes |-> ProjectionWeightBytes(a),
     expert_weight_bytes |-> ExpertWeightBytes(a),
     chunk_plan |-> ChunkPlan(a), chunk_byte_plan |-> ChunkBytePlan(a),
     num_chunks |-> NumChunks(a),
     digital_chiplets |-> DigitalChiplets(a), rram_chiplets |-> RramChiplets(a),
     digital_latency_base |-> DigitalLatencyBase(a),
     expert_chips |-> ExpertChips(a)]

\* Faulty variant: every chunk is given the size of the last chunk.
ChunkSize_LastChunk(e, chunk_idx) == Last(e.chunk_byte_plan)

ChunkSize(e, chunk_idx) ==
    IF chunk_idx < Len(e.chunk_byte_plan)
    THEN At(e.chunk_byte_plan, chunk_idx)
    ELSE Last(e.chunk_byte_plan)

\* Faulty variant: the byte count is rounded down to whole units.
TransferLatency_Floor(chunk_size) == Max(FloorDiv(chunk_size, 4096), 4)

TransferLatency(chunk_size) == Max(CeilDiv(chunk_size, 4096), 4)

----------------------------------------------------------------------------
(* build_moe_sequence: the stage dictionaries *)

EmbedStage(e) ==
    [type |-> "token_prep", name |-> <<"embed">>, tokens |-> e.tokens,
     features |-> e.hidden_size,
     latency |-> Max(FloorDiv(e.digital_latency_base, 8), 2),
     host_load_kind |-> "kv_cache"]

ProjAux(e, proj_label, chunk_idx) ==
    [chunk_index |-> chunk_idx, chunk_total |-> e.num_chunks,
     projection |-> proj_label]

ProjDownStage(e, proj_label, layer, chunk_idx, rram_id) ==
    [type |-> "transfer",
     name |-> <<proj_label, "transfer_to_rram", layer, chunk_idx>>,
     direction |-> "digital_to_rram",
     bytes |-> ChunkSize(e, chunk_idx),
     latency |-> TransferLatency(ChunkSize(e, chunk_idx)),
     aux |-> ProjAux(e, proj_label, chunk_idx),
     chiplet |-> rram_id,
     queue |-> ChunkDigitalOwner(e.digital_chiplets, layer, chunk_idx)]

\* Faulty variant: every chunk of a projection is charged the weights.
ProjWeightBytes_EveryChunk(weight_bytes, chunk_idx) == weight_bytes

\* weight_bytes of the rram_linear stage of a projection
ProjWeightBytes(weight_bytes, chunk_idx) ==
    IF chunk_idx = 0 THEN weight_bytes ELSE 0

ProjLinearStage(e, proj_label, layer, chunk_idx, weight_bytes, rram_id) ==
    [type |-> "rram_linear",
     name |-> <<proj_label, "proj_rram", layer, chunk_idx>>,
     rows |-> At(e.chunk_plan, chunk_idx),
     cols |-> e.hidden_size,
     k |-> e.hidden_size,
     activation_bytes |-> ChunkSize(e, chunk_idx),
     weight_bytes |-> ProjWeightBytes(weight_bytes, chunk_idx),
     pulse_count |-> Max(FloorDiv(e.hidden_size, 64), 16),
     adc_samples |-> e.hidden_size,
     pre_cycles |-> 12,
     post_cycles |-> 10,
     aux |-> ProjAux(e, proj_label, chunk_idx),
     chiplet |-> rram_id]

ProjUpStage(e, proj_label, layer, chunk_idx, rram_id) ==
    [type |-> "transfer",
     name |-> <<proj_label, "transfer_to_digital", layer, chunk_idx>>,
     direction |-> "rram_to_digital",
     bytes |-> ChunkSize(e, chunk_idx),
     latency |-> TransferLatency(ChunkSize(e, chunk_idx)),
     aux |-> ProjAux(e, proj_label, chunk_idx),
     chiplet |-> ChunkDigitalOwner(e.digital_chiplets, layer, chunk_idx),
     queue |-> rram_id]

ChunkMetadata(e, layer, stage, chunk_idx, chunk_tokens) ==
    [layer_index |-> layer, stage |-> stage, chunk_index |-> chunk_idx,
     chunk_tokens |-> chunk_tokens, chunk_total |-> Len(e.chunk_plan)]

\* weight_bytes of an attention (score or mix) stage
AttnWeightBytes(e, chunk_idx, chunk_tokens) ==
    chunk_tokens * e.hidden_size * e.dtype_bytes

AttnScoreStage(e, layer, chunk_idx, chunk_tokens) ==
    [type |-> "attention", name |-> <<"attn_score", layer, chunk_idx>>,
     rows |-> chunk_tokens, cols |-> e.hidden_size, k |-> e.hidden_size,
     latency |-> e.digital_latency_base,
     chiplet |-> ChunkDigitalOwner(e.digital_chiplets, layer, chunk_idx),
     queue |-> ChunkDigitalOwner(e.digital_chiplets, layer, chunk_idx),
     weight_bytes |-> AttnWeightBytes(e, chunk_idx, chunk_tokens),
     metadata |-> ChunkMetadata(e, layer, "attention_score", chunk_idx, chunk_tokens)]

SoftmaxStage(e, layer, chunk_idx, chunk_tokens) ==
    [type |-> "softmax", name |-> <<"softmax", layer, chunk_idx>>,
     rows |-> chunk_tokens, cols |-> e.hidden_size,
     latency |-> Max(FloorDiv(e.digital_latency_base, 4), 8),
     chiplet |-> ChunkDigitalOwner(e.digital_chiplets, layer, chunk_idx),
     queue |-> ChunkDigitalOwner(e.digital_chiplets, layer, chunk_idx),
     nonlinear_kind |-> "softmax",
     metadata |-> ChunkMetadata(e, layer, "attention_norm", chunk_idx, chunk_tokens)]

AttnMixStage(e, layer, chunk_idx, chunk_tokens) ==
    [type |-> "attention", name |-> <<"attn_mix", layer, chunk_idx>>,
     rows |-> chunk_tokens, cols |-> e.hidden_size, k |-> e.hidden_size,
     latency |-> e.digital_latency_base,
     chiplet |-> ChunkDigitalOwner(e.digital_chiplets, layer, chunk_idx),
     queue |-> ChunkDigitalOwner(e.digital_chiplets, layer, chunk_idx),
     weight_bytes |-> AttnWeightBytes(e, chunk_idx, chunk_tokens),
     metadata |-> ChunkMetadata(e, layer, "attention_mix", chunk_idx, chunk_tokens)]

PostAttentionStage(e, layer, chunk_idx, chunk_tokens) ==
    [type |-> "postprocess", name |-> <<"post_attention", layer, chunk_idx>>,
     rows |-> chunk_tokens, cols |-> e.hidden_size,
     latency |-> Max(FloorDiv(e.digital_latency_base, 5), 10),
     chiplet |-> ChunkDigitalOwner(e.digital_chiplets, layer, chunk_idx),
     queue |-> ChunkDigitalOwner(e.digital_chiplets, layer, chunk_idx),
     nonlinear_kind |-> "residual",
     metadata |-> ChunkMetadata(e, layer, "post_attention", chunk_idx, chunk_tokens)]

GatingStage(e, layer, chunk_idx, chunk_tokens) ==
    [type |-> "moe_gating", name |-> <<"moe_gating", layer, chunk_idx>>,
     rows |-> chunk_tokens, cols |-> e.experts_per_tok, k |-> e.num_experts,
     latency |-> Max(FloorDiv(e.digital_latency_base, 6), 6),
     aux |-> [experts_per_tok |-> e.experts_per_tok, chunk_index |-> chunk_idx],
     chiplet |-> ChunkDigitalOwner(e.digital_chiplets, layer, chunk_idx),
     queue |-> ChunkDigitalOwner(e.digital_chiplets, layer, chunk_idx),
     randomize_experts |-> TRUE]

ExpertsTemplate(e, layer) ==
    [i \in 1..Max(e.num_experts, 0) |->
        [name |-> <<"expert", layer, i - 1>>,
         chiplet |-> At(e.expert_chips, i - 1),
         activation_bytes |->
             FloorDiv(e.activation_bytes_total, Max(e.experts_per_tok, 1)),
         weight_bytes |-> e.expert_weight_bytes,
         execute_latency |-> Max(TruncDiv(e.intermediate_size, 16), 32)]]

\* weight_bytes of a per-expert sub-record and of the moe_linear stage
MoeWeightBytes(weight_bytes, chunk_idx) ==
    IF chunk_idx = 0 THEN weight_bytes ELSE 0

MoeExperts(e, layer, chunk_idx) ==
    [i \in 1..Len(ExpertsTemplate(e, layer)) |->
        LET expert == ExpertsTemplate(e, layer)[i]
        IN  [name |-> expert.name,
             chiplet |-> expert.chiplet,
             activation_bytes |->
                 FloorDiv(ChunkSize(e, chunk_idx), Max(e.experts_per_tok, 1)),
             weight_bytes |-> MoeWeightBytes(expert.weight_bytes, chunk_idx),
             execute_latency |-> expert.execute_latency,
             chunk_index |-> chunk_idx]]

MoeAux(e, chunk_idx) ==
    [chunk_index |-> chunk_idx, chunk_total |-> e.num_chunks,
     experts_per_tok |-> e.experts_per_tok]

\* Faulty variant: the target is chosen by the chunk index alone.
TargetRram_ByChunk(e, chunk_idx) ==
    At(e.expert_chips, PyMod(chunk_idx, Len(e.expert_chips)))

\* requires len(expert_chips) > 0
TargetRram(e, chunk_idx) ==
    At(e.expert_chips, PyMod(chunk_idx * e.experts_per_tok, Len(e.expert_chips)))

MoeDownStage(e, layer, chunk_idx) ==
    [type |-> "transfer", name |-> <<"moe_transfer_to_rram", layer, chunk_idx>>,
     direction |-> "digital_to_rram",
     bytes |-> ChunkSize(e, chunk_idx),
     latency |-> TransferLatency(ChunkSize(e, chunk_idx)),
     aux |-> MoeAux(e, chunk_idx),
     chiplet |-> TargetRram(e, chunk_idx),
     queue |-> ChunkDigitalOwner(e.digital_chiplets, layer, chunk_idx)]

MoeLinearStage(e, layer, chunk_idx) ==
    [type |-> "moe_linear", name |-> <<"moe", layer, chunk_idx>>,
     parallel |-> TRUE,
     pulse_count |-> Max(FloorDiv(e.intermediate_size, 64), 16),
     adc_samples |-> e.hidden_size,
     pre_cycles |-> 12,
     post_cycles |-> 10,
     activation_bytes |-> ChunkSize(e, chunk_idx),
     weight_bytes |-> MoeWeightBytes(e.expert_weight_bytes, chunk_idx),
     experts |-> MoeExperts(e, layer, chunk_idx)]

MoeUpStage(e, layer, chunk_idx) ==
    [type |-> "transfer", name |-> <<"moe_transfer_to_digital", layer, chunk_idx>>,
     direction |-> "rram_to_digital",
     bytes |-> ChunkSize(e, chunk_idx),
     latency |-> TransferLatency(ChunkSize(e, chunk_idx)),
     aux |-> MoeAux(e, chunk_idx),
     chiplet |-> ChunkDigitalOwner(e.digital_chiplets, layer, chunk_idx),
     queue |-> TargetRram(e, chunk_idx)]

MergeStage(e, layer, chunk_idx, chunk_tokens) ==
    [type |-> "moe_merge", name |-> <<"moe_merge", layer, chunk_idx>>,
     rows |-> chunk_tokens, cols |-> e.hidden_size,
     latency |-> Max(FloorDiv(e.digital_latency_base, 5), 10)]

PostprocessStage(e, layer, chunk_idx, chunk_tokens) ==
    [type |-> "postprocess", name |-> <<"postprocess", layer, chunk_idx>>,
     rows |-> chunk_tokens, cols |-> e.hidden_size,
     latency |-> Max(FloorDiv(e.digital_latency_base, 3), 12),
     nonlinear_kind |-> "residual",
     host_store_kind |-> "kv_cache",
     chiplet |-> ChunkDigitalOwner(e.digital_chiplets, layer, chunk_idx),
     queue |-> ChunkDigitalOwner(e.digital_chiplets, layer, chunk_idx)]

----------------------------------------------------------------------------
(* build_moe_sequence: add_projection *)

RECURSIVE ProjectionLoop(_, _, _, _, _, _, _, _)
ProjectionLoop(e, seq, proj_label, layer, weight_bytes, rram_id, chunk_idx, last_idx) ==
    IF chunk_idx >= Len(e.chunk_plan)
    THEN [sequence |-> seq, last_idx |-> last_idx]
    ELSE LET s1 == AppendStage(seq,
                       ProjDownStage(e, proj_label, layer, chunk_idx, rram_id),
                       PyList(<<last_idx>>))
             down == Len(s1) - 1
             s2 == AppendStage(s1,
                       ProjLinearStage(e, proj_label, layer, chunk_idx,
                                       weight_bytes, rram_id),
                       PyList(<<down>>))
             linear == Len(s2) - 1
             s3 == AppendStage(s2,
                       ProjUpStage(e, proj_label, layer, chunk_idx, rram_id),
                       PyList(<<linear>>))
             up == Len(s3) - 1
         IN  ProjectionLoop(e, s3, proj_label, layer, weight_bytes, rram_id,
                            chunk_idx + 1, up)

\* digital_id is accepted and never read, as in the source.
AddProjection(e, seq, proj_label, layer, depends_idx, weight_bytes, digital_id, rram_id) ==
    ProjectionLoop(e, seq, proj_label, layer, weight_bytes, rram_id, 0, depends_idx)

RramBase(e, layer) == PyMod(layer * 4, e.rram_chiplets)
ProjRram(e, layer, offset) == PyMod(RramBase(e, layer) + offset, e.rram_chiplets)
DigitalId(e, layer) == PyMod(layer, e.digital_chiplets)

----------------------------------------------------------------------------
(* build_moe_sequence: the MoE dispatch loop *)

\* Faulty variant: moe_prev is not recorded as a dependency.
MoeDownDeps_NoPrev(gating_chunks, chunk_idx, moe_prev) ==
    IF chunk_idx < Len(gating_chunks)
    THEN <<At(gating_chunks, chunk_idx)>>
    ELSE <<>>

\* down_deps of chunk chunk_idx
MoeDownDeps(gating_chunks, chunk_idx, moe_prev) ==
    LET d1 == IF chunk_idx < Len(gating_chunks)
              THEN <<At(gating_chunks, chunk_idx)>>
              ELSE <<>>
    IN  IF moe_prev /= PyNone THEN Append(d1, moe_prev.v) ELSE d1

RECURSIVE MoeLoop(_, _, _, _, _, _, _)
MoeLoop(e, seq, layer, gating_chunks, chunk_idx, moe_prev, transfer_up_chunks) ==
    IF chunk_idx >= Len(e.chunk_plan)
    THEN [sequence |-> seq, moe_prev |-> moe_prev,
          transfer_up_chunks |-> transfer_up_chunks]
    ELSE LET down_deps == MoeDownDeps(gating_chunks, chunk_idx, moe_prev)
             s1 == AppendStage(seq, MoeDownStage(e, layer, chunk_idx),
                       IF down_deps /= <<>> THEN PyList(down_deps) ELSE PyNone)
             transfer_down == Len(s1) - 1
             s2 == AppendStage(s1, MoeLinearStage(e, layer, chunk_idx),
                       PyList(<<transfer_down>>))
             moe_stage == Len(s2) - 1
             s3 == AppendStage(s2, MoeUpStage(e, layer, chunk_idx),
                       PyList(<<moe_stage>>))
             transfer_up == Len(s3) - 1
         IN  MoeLoop(e, s3, layer, gating_chunks, chunk_idx + 1,
                     PyInt(transfer_up), Append(transfer_up_chunks, transfer_up))

\* The first iteration evaluates `... % len(expert_chips)`: with no expert
\* the loop raises ZeroDivisionError (the chunk plan is never empty here).
MoeRaises(e) == Len(e.chunk_plan) > 0 /\ Len(e.expert_chips) = 0

----------------------------------------------------------------------------
(* build_moe_sequence: the steps of one layer, each on the builder's state
   b = [sequence, loc] *)

LocInit ==
    [prev_stage |-> -1, q_done |-> -1, k_done |-> -1, v_done |-> -1,
     attn_score_chunks |-> <<>>, post_attn_chunks |-> <<>>,
     attn_mix_chunks |-> <<>>, attn_mix_tail |-> -1, o_done |-> -1,
     post_attention_chunks |-> <<>>, gating_chunks |-> <<>>,
     moe_prev |-> PyNone, transfer_up_chunks |-> <<>>,
     merge_chunks |-> <<>>, postprocess_chunks |-> <<>>]

\* embed_stage: the index append_stage returns for the first stage
EmbedIndex == 0

MixDeps(e, post_attn_chunks, v_done) ==
    [i \in 1..Len(e.chunk_plan) |->
        IntList((IF i - 1 < Len(post_attn_chunks)
                 THEN <<At(post_attn_chunks, i - 1)>>
                 ELSE <<>>) \o <<v_done>>)]

AttnMixTail(attn_mix_chunks, post_attn_chunks, attn_score_chunks) ==
    IF attn_mix_chunks /= <<>> THEN Last(attn_mix_chunks)
    ELSE IF post_attn_chunks /= <<>> THEN Last(post_attn_chunks)
    ELSE Last(attn_score_chunks)

\* Faulty variant: the next layer is started from the output projection.
NextPrevStage_OutputProjection(l) == l.o_done

NextPrevStage(l) ==
    IF l.postprocess_chunks /= <<>> THEN Last(l.postprocess_chunks)
    ELSE IF l.merge_chunks /= <<>> THEN Last(l.merge_chunks)
    ELSE IF l.transfer_up_chunks /= <<>> THEN Last(l.transfer_up_chunks)
    ELSE IF l.moe_prev /= PyNone THEN l.moe_prev.v
    ELSE l.o_done

----------------------------------------------------------------------------
(* build_chunk_plan, step by step *)

PlannerCall(tokens, hidden_size, dtype_bytes, chunk_bytes) ==
    [pc |-> "call", tokens |-> tokens, hidden_size |-> hidden_size,
     dtype_bytes |-> dtype_bytes, chunk_bytes |-> chunk_bytes,
     tokens_per_chunk |-> 0, remaining |-> 0, plan |-> <<>>, result |-> <<>>]

BuilderIdle ==
    /\ args = PyNone
    /\ sequence = <<>>
    /\ pc = "idle"
    /\ env = PyNone
    /\ layer_idx = 0
    /\ loc = LocInit

InitPlan ==
    /\ BuilderIdle
    /\ run = RunIdle
    /\ AuxIdle
    /\ DriverIdle
    /\ \E t \in 0..MaxPlan, h \in 1..MaxPlan, d \in 1..MaxPlan, c \in 1..MaxPlan :
           planner = PlannerCall(t, h, d, c)

\* if tokens <= 0: return []
PlanEmpty ==
    /\ planner.pc = "call"
    /\ planner.tokens <= 0
    /\ planner' = [planner EXCEPT !.pc = "returned", !.result = <<>>]
    /\ UNCHANGED <<builder, run, driver, aux>>

PlanEnter ==
    /\ planner.pc = "call"
    /\ planner.tokens > 0
    /\ planner' = [planner EXCEPT
           !.pc = "loop",
           !.tokens_per_chunk = TokensPerChunk(planner.hidden_size,
                                    planner.dtype_bytes, planner.chunk_bytes),
           !.plan = <<>>,
           !.remaining = planner.tokens]
    /\ UNCHANGED <<builder, run, driver, aux>>

PlanTake ==
    /\ planner.pc = "loop"
    /\ planner.remaining > 0
    /\ LET take == Take(planner.tokens_per_chunk, planner.remaining)
       IN  planner' = [planner EXCEPT
               !.plan = Append(planner.plan, take),
               !.remaining = planner.remaining - take]
    /\ UNCHANGED <<builder, run, driver, aux>>

PlanReturn ==
    /\ planner.pc = "loop"
    /\ planner.remaining <= 0
    /\ planner' = [planner EXCEPT
           !.pc = "returned",
           !.result = IF planner.plan = <<>>
                      THEN <<planner.tokens>>
                      ELSE planner.plan]
    /\ UNCHANGED <<builder, run, driver, aux>>

NextPlan ==
    \/ PlanEmpty
    \/ PlanEnter
    \/ PlanTake
    \/ PlanReturn

SpecPlan == InitPlan /\ [][NextPlan]_vars

----------------------------------------------------------------------------
(* The builder as a state machine: one action per step of
   build_moe_sequence. *)

\* digital_latency_scale is a float; 1.0 is the command-line default.
ArgsSpace ==
    [layers : 0..MaxLayers, hidden_size : {1, 2},
     intermediate_size : {64}, num_experts : 0..MaxExperts,
     experts_per_tok : 1..MaxExperts, seq_length : 1..MaxSeqLength,
     batch : {1}, dtype_bytes : {1, 2},
     digital_chiplets : 1..MaxChiplets, rram_chiplets : 1..MaxChiplets,
     digital_latency_scale : {PyFloat(1, 0)}, chunk_bytes : {4}]

BuilderInit(space) ==
    /\ args \in space
    /\ sequence = <<>>
    /\ pc = "start"
    /\ env = PyNone
    /\ layer_idx = 0
    /\ loc = LocInit

Init ==
    /\ BuilderInit(ArgsSpace)
    /\ planner = PlannerIdle
    /\ run = RunIdle
    /\ AuxIdle
    /\ DriverIdle

Goto(seq, l, next) ==
    /\ sequence' = seq
    /\ loc' = l
    /\ pc' = next
    /\ UNCHANGED <<args, env, layer_idx, planner, run, driver, aux>>

\* Faulty variant: the list is not made anew, the list of the previous call
\* is taken up again.
EmptySequence_Leftover == sequence

\* sequence = []: every call starts on a list of its own.
EmptySequence == <<>>

\* The locals before the layer loop and the token_prep stage; embed_stage is
\* the index append_stage returns.  The layer loop starts at layer 0.
Embed ==
    /\ pc = "start"
    /\ env' = Env(args)
    /\ sequence' = AppendStage(EmptySequence, EmbedStage(Env(args)), PyList(<<>>))
    /\ loc' = [LocInit EXCEPT !.prev_stage = EmbedIndex]
    /\ layer_idx' = 0
    /\ pc' = IF 0 < args.layers THEN "q" ELSE "done"
    /\ UNCHANGED <<args, planner, run, driver, aux>>

ProjectQ ==
    /\ pc = "q"
    /\ LET r == AddProjection(env, sequence, "q", layer_idx,
                    IF layer_idx = 0 THEN EmbedIndex ELSE loc.prev_stage,
                    env.projection_weight_bytes, DigitalId(env, layer_idx),
                    ProjRram(env, layer_idx, 0))
       IN  Goto(r.sequence,
                [loc EXCEPT !.q_done = r.last_idx],
                "k")

\* Faulty variant: the K projection is started from the token_prep stage.
ProjectK_FromEmbed ==
    /\ pc = "k"
    /\ LET r == AddProjection(env, sequence, "k", layer_idx, EmbedIndex,
                    env.projection_weight_bytes, DigitalId(env, layer_idx),
                    ProjRram(env, layer_idx, 1))
       IN  Goto(r.sequence,
                [loc EXCEPT !.k_done = r.last_idx],
                "v")

ProjectK ==
    /\ pc = "k"
    /\ LET r == AddProjection(env, sequence, "k", layer_idx, loc.q_done,
                    env.projection_weight_bytes, DigitalId(env, layer_idx),
                    ProjRram(env, layer_idx, 1))
       IN  Goto(r.sequence,
                [loc EXCEPT !.k_done = r.last_idx],
                "v")

ProjectV ==
    /\ pc = "v"
    /\ LET r == AddProjection(env, sequence, "v", layer_idx, loc.k_done,
                    env.projection_weight_bytes, DigitalId(env, layer_idx),
                    ProjRram(env, layer_idx, 2))
       IN  Goto(r.sequence,
                [loc EXCEPT !.v_done = r.last_idx],
                "score")

AttnScore ==
    /\ pc = "score"
    /\ LET r == AppendChunkedStage(sequence,
                    [i \in 1..Len(env.chunk_plan) |->
                        AttnScoreStage(env, layer_idx, i - 1, env.chunk_plan[i])],
                    IntList(<<loc.q_done, loc.k_done>>), PyNone, FALSE)
       IN  Goto(r.sequence,
                [loc EXCEPT !.attn_score_chunks = r.chunk_ids],
                "softmax")

\* Faulty variant: no softmax stage is emitted.
Softmax_Skipped ==
    /\ pc = "softmax"
    /\ Goto(sequence, [loc EXCEPT !.post_attn_chunks = <<>>], "mix")

Softmax ==
    /\ pc = "softmax"
    /\ LET per_chunk_dep == IntList(loc.attn_score_chunks)
           r == AppendChunkedStage(sequence,
                    [i \in 1..Len(env.chunk_plan) |->
                        SoftmaxStage(env, layer_idx, i - 1, env.chunk_plan[i])],
                    PyNone, per_chunk_dep, FALSE)
       IN  Goto(r.sequence,
                [loc EXCEPT !.post_attn_chunks = r.chunk_ids],
                "mix")

AttnMix ==
    /\ pc = "mix"
    /\ LET r == AppendChunkedStage(sequence,
                    [i \in 1..Len(env.chunk_plan) |->
                        AttnMixStage(env, layer_idx, i - 1, env.chunk_plan[i])],
                    PyNone,
                    PyList(MixDeps(env, loc.post_attn_chunks, loc.v_done)), FALSE)
       IN  Goto(r.sequence,
                [loc EXCEPT
                    !.attn_mix_chunks = r.chunk_ids,
                    !.attn_mix_tail = AttnMixTail(r.chunk_ids,
                                          loc.post_attn_chunks,
                                          loc.attn_score_chunks)],
                "o")

ProjectO ==
    /\ pc = "o"
    /\ LET r == AddProjection(env, sequence, "o", layer_idx, loc.attn_mix_tail,
                    env.projection_weight_bytes, DigitalId(env, layer_idx),
                    ProjRram(env, layer_idx, 3))
       IN  Goto(r.sequence,
                [loc EXCEPT !.o_done = r.last_idx],
                "post_attention")

PostAttention ==
    /\ pc = "post_attention"
    /\ LET r == AppendChunkedStage(sequence,
                    [i \in 1..Len(env.chunk_plan) |->
                        PostAttentionStage(env, layer_idx, i - 1, env.chunk_plan[i])],
                    PyInt(loc.o_done), PyNone, FALSE)
       IN  Goto(r.sequence,
                [loc EXCEPT !.post_attention_chunks = r.chunk_ids],
                "gating")

Gating ==
    /\ pc = "gating"
    /\ LET r == AppendChunkedStage(sequence,
                    [i \in 1..Len(env.chunk_plan) |->
                        GatingStage(env, layer_idx, i - 1, env.chunk_plan[i])],
                    PyNone, IntList(loc.post_attention_chunks), TRUE)
       IN  Goto(r.sequence,
                [loc EXCEPT !.gating_chunks = r.chunk_ids],
                "moe")

MoeDispatch ==
    /\ pc = "moe"
    /\ ~MoeRaises(env)
    /\ LET r == MoeLoop(env, sequence, layer_idx, loc.gating_chunks, 0, PyNone, <<>>)
       IN  Goto(r.sequence,
                [loc EXCEPT !.moe_prev = r.moe_prev,
                            !.transfer_up_chunks = r.transfer_up_chunks],
                "merge")

\* ZeroDivisionError leaves build_moe_sequence: no list is returned.
MoeDispatchRaises ==
    /\ pc = "moe"
    /\ MoeRaises(env)
    /\ pc' = "raised"
    /\ UNCHANGED <<args, sequence, env, layer_idx, loc, planner, run, driver, aux>>

Merge ==
    /\ pc = "merge"
    /\ LET r == AppendChunkedStage(sequence,
                    [i \in 1..Len(env.chunk_plan) |->
                        MergeStage(env, layer_idx, i - 1, env.chunk_plan[i])],
                    PyNone, IntList(loc.transfer_up_chunks), TRUE)
       IN  Goto(r.sequence,
                [loc EXCEPT !.merge_chunks = r.chunk_ids],
                "postprocess")

\* The last step of a layer, and the loop's advance to the next layer or to
\* `return sequence`.
Postprocess ==
    /\ pc = "postprocess"
    /\ LET r == AppendChunkedStage(sequence,
                    [i \in 1..Len(env.chunk_plan) |->
                        PostprocessStage(env, layer_idx, i - 1, env.chunk_plan[i])],
                    PyNone, IntList(loc.merge_chunks), TRUE)
           l2 == [loc EXCEPT !.postprocess_chunks = r.chunk_ids]
       IN  /\ sequence' = r.sequence
           /\ loc' = [l2 EXCEPT !.prev_stage = NextPrevStage(l2)]
    /\ layer_idx' = layer_idx + 1
    /\ pc' = IF layer_idx + 1 < env.layers THEN "q" ELSE "done"
    /\ UNCHANGED <<args, env, planner, run, driver, aux>>

Next ==
    \/ Embed
    \/ ProjectQ
    \/ ProjectK
    \/ ProjectV
    \/ AttnScore
    \/ Softmax
    \/ AttnMix
    \/ ProjectO
    \/ PostAttention
    \/ Gating
    \/ MoeDispatch
    \/ MoeDispatchRaises
    \/ Merge
    \/ Postprocess

Spec == Init /\ [][Next]_vars

----------------------------------------------------------------------------
(* The builder of src/tools/generate_chiplet_model.py, which emits one
   attention, softmax, gating, merge and postprocess stage per layer and
   chunks only the MoE dispatch.  Of each stage dict the type, the name and
   the deps are kept: the fields that order the stages. *)

LegacyStage(type, name) == [type |-> type, name |-> name]

\* num_chunks, after dtype_bytes and chunk_bytes are clamped
LegacyNumChunks(a) ==
    Max(CeilDiv(ActivationBytesTotal(a), ChunkBytes(a)), 1)

\* The chunk loop of one layer: [sequence, last_transfer_up].
RECURSIVE LegacyChunkLoop(_, _, _, _, _, _)
LegacyChunkLoop(seq, layer, num_chunks, gating, chunk_idx, last_transfer_up) ==
    IF chunk_idx >= num_chunks
    THEN [sequence |-> seq, last_transfer_up |-> last_transfer_up]
    ELSE LET chunk_dep == IF chunk_idx = 0 THEN <<gating>>
                          ELSE <<last_transfer_up.v>>
             s1 == AppendStage(seq,
                       LegacyStage("transfer", <<"transfer_to_rram", layer, chunk_idx>>),
                       PyList(chunk_dep))
             transfer_down == Len(s1) - 1
             s2 == AppendStage(s1,
                       LegacyStage("moe_linear", <<"moe", layer, chunk_idx>>),
                       PyList(<<transfer_down>>))
             moe_stage == Len(s2) - 1
             s3 == AppendStage(s2,
                       LegacyStage("transfer", <<"transfer_to_digital", layer, chunk_idx>>),
                       PyList(<<moe_stage>>))
         IN  LegacyChunkLoop(s3, layer, num_chunks, gating, chunk_idx + 1,
                             PyInt(Len(s3) - 1))

\* host_load_input and embed
LegacyPrologue ==
    /\ pc = "legacy_start"
    /\ LET s1 == AppendStage(<<>>, LegacyStage("transfer", <<"host_load_input">>),
                             PyList(<<>>))
           host_prefetch_idx == Len(s1) - 1
       IN  sequence' = AppendStage(s1, LegacyStage("token_prep", <<"embed">>),
                                   PyList(<<host_prefetch_idx>>))
    /\ pc' = IF 0 < args.layers THEN "legacy_layer" ELSE "legacy_store"
    /\ UNCHANGED <<args, env, layer_idx, loc, planner, run, driver, aux>>

\* One iteration of the layer loop
LegacyLayer ==
    /\ pc = "legacy_layer"
    /\ LET s1 == AppendStage(sequence,
                     LegacyStage("attention", <<"attn", layer_idx>>), PyNone)
           att == Len(s1) - 1
           s2 == AppendStage(s1,
                     LegacyStage("softmax", <<"softmax", layer_idx>>),
                     PyList(<<att>>))
           post_attn == Len(s2) - 1
           s3 == AppendStage(s2,
                     LegacyStage("moe_gating", <<"moe_gating", layer_idx>>),
                     PyList(<<post_attn>>))
           gating == Len(s3) - 1
           r == LegacyChunkLoop(s3, layer_idx, LegacyNumChunks(args), gating,
                                0, PyNone)
           s4 == AppendStage(r.sequence,
                     LegacyStage("moe_merge", <<"moe_merge", layer_idx>>),
                     PyList(IF r.last_transfer_up /= PyNone
                            THEN <<r.last_transfer_up.v>>
                            ELSE <<gating>>))
           merge == Len(s4) - 1
       IN  sequence' = AppendStage(s4,
                           LegacyStage("postprocess", <<"postprocess", layer_idx>>),
                           PyList(<<merge>>))
    /\ layer_idx' = layer_idx + 1
    /\ pc' = IF layer_idx + 1 < args.layers THEN "legacy_layer" ELSE "legacy_store"
    /\ UNCHANGED <<args, env, loc, planner, run, driver, aux>>

\* store_logits after the last stage, and `return sequence`
LegacyStoreLogits ==
    /\ pc = "legacy_store"
    /\ sequence' =
           IF sequence /= <<>>
           THEN AppendStage(sequence, LegacyStage("transfer", <<"store_logits">>),
                            PyList(<<Len(sequence) - 1>>))
           ELSE sequence
    /\ pc' = "done"
    /\ UNCHANGED <<args, env, layer_idx, loc, planner, run, driver, aux>>

\* Either builder, called on the same arguments.
InitBuilders ==
    /\ args \in ArgsSpace
    /\ sequence = <<>>
    /\ pc \in {"start", "legacy_start"}
    /\ env = PyNone
    /\ layer_idx = 0
    /\ loc = LocInit
    /\ planner = PlannerIdle
    /\ run = RunIdle
    /\ AuxIdle
    /\ DriverIdle

NextBuilders ==
    \/ Next
    \/ LegacyPrologue
    \/ LegacyLayer
    \/ LegacyStoreLogits

SpecBuilders == InitBuilders /\ [][NextBuilders]_vars

----------------------------------------------------------------------------
(* Values read from a JSON config and Python's truthiness *)

PyBool(b) == [kind |-> "bool", v |-> b]
PyStr(s) == [kind |-> "str", v |-> s]

\* An object of a JSON file: a function from its keys to Python values.
PyDict(v) == [kind |-> "dict", v |-> v]

\* bool(x): None, 0, 0.0, False, "", [] and {} are falsy; a path is truthy.
Truthy(x) ==
    CASE x.kind = "none" -> FALSE
      [] x.kind = "int" -> x.v /= 0
      [] x.kind = "float" -> x.m /= 0
      [] x.kind = "dict" -> DOMAIN x.v /= {}
      [] x.kind = "bool" -> x.v
      [] x.kind = "str" -> x.v /= ""
      [] x.kind = "list" -> x.v /= <<>>
      [] x.kind = "path" -> TRUE

\* a or b
Or(a, b) == IF Truthy(a) THEN a ELSE b

\* isinstance(x, (int, float)): a bool is an int.
IsNumber(x) == x.kind \in {"int", "bool", "float"}

\* int(x) of a number; a float m / 2^k is truncated toward zero
IntOf(x) ==
    CASE x.kind = "bool" -> (IF x.v THEN 1 ELSE 0)
      [] x.kind = "float" -> TruncDiv(x.m, 2 ^ x.k)
      [] x.kind = "int" -> x.v

\* data.get(key, default)
Get(data, key, default) == IF key \in DOMAIN data THEN data[key] ELSE default

\* The first position of keys that passes the test of a *_from_config loop.
FirstHit(hits) == CHOOSE i \in hits : \A j \in hits : i <= j

IntFromConfig(data, keys, default) ==
    LET hits == {i \in 1..Len(keys) :
                    keys[i] \in DOMAIN data /\ IsNumber(data[keys[i]])}
    IN  IF hits = {} THEN default ELSE PyInt(IntOf(data[keys[FirstHit(hits)]]))

UpperLetters == "ABCDEFGHIJKLMNOPQRSTUVWXYZ"
LowerLetters == "abcdefghijklmnopqrstuvwxyz"

\* s[i] of a string, for a Python index i >= 0
CharAt(s, i) == SubSeq(s, i + 1, i + 1)

TrueWords == {"1", "true", "yes", "y", "on"}

\* The strings s with s.lower() = word, for a word of "1" and the letters
\* e, n, o, r, s, t, u, y: str.lower() lowers code point by code point,
\* and the only code points it turns into one of these characters are the
\* character itself and, for a letter, its capital A..Z.  So they are the
\* spellings of the word in capitals and small letters.
RECURSIVE Spellings(_)
Spellings(word) ==
    IF word = "" THEN {""}
    ELSE LET c == CharAt(word, 0)
             hits == {i \in 0..(Len(LowerLetters) - 1) : CharAt(LowerLetters, i) = c}
             firsts == {c} \cup {CharAt(UpperLetters, i) : i \in hits}
         IN  {first \o rest :
                 first \in firsts, rest \in Spellings(SubSeq(word, 2, Len(word)))}

\* value.lower() in {"1", "true", "yes", "y", "on"}
LowersToTrueWord(value) == value \in UNION {Spellings(word) : word \in TrueWords}

BoolFromConfig(data, keys, default) ==
    LET hits == {i \in 1..Len(keys) :
                    keys[i] \in DOMAIN data
                    /\ data[keys[i]].kind \in {"bool", "str"}}
        value == data[keys[FirstHit(hits)]]
    IN  IF hits = {} THEN default
        ELSE IF value.kind = "bool" THEN value.v
        ELSE LowersToTrueWord(value.v)

----------------------------------------------------------------------------
(* generate_chiplet_model: resolution of the model shape *)

HiddenKeys == <<"hidden_size", "n_embd", "dim">>
IntermediateKeys == <<"moe_intermediate_size", "intermediate_size", "ffn_hidden_size">>
LayerKeys == <<"num_hidden_layers", "n_layer", "num_layers">>
LocalExpertKeys == <<"num_local_experts">>
MoeExpertKeys == <<"moe_num_experts", "num_experts">>
TopkKeys == <<"moe_topk", "moe_top_k">>

DefaultHiddenSize == 4096
IntermediateFactor == 4
DefaultLayers == 32
DefaultNumExperts == 16
DefaultExpertsPerTok == 2

ResolveHidden(n, data) ==
    Or(n.hidden_size, IntFromConfig(data, HiddenKeys, PyInt(DefaultHiddenSize))).v

ResolveIntermediate(n, data, hidden_size) ==
    Or(n.intermediate_size,
       IntFromConfig(data, IntermediateKeys,
                     PyInt(hidden_size * IntermediateFactor))).v

ResolveLayers(n, data) ==
    Or(n.layers, IntFromConfig(data, LayerKeys, PyInt(DefaultLayers))).v

ResolveNumExperts(n, data) ==
    LET config_local_experts == IntFromConfig(data, LocalExpertKeys, PyNone)
        config_moe_experts == IntFromConfig(data, MoeExpertKeys, PyNone)
    IN  Or(Or(Or(n.num_experts, config_local_experts), config_moe_experts),
           PyInt(DefaultNumExperts)).v

ResolveExpertsPerTok(n, data) ==
    Or(n.experts_per_tok,
       IntFromConfig(data, TopkKeys, PyInt(DefaultExpertsPerTok))).v

UseMoe(data, num_experts) == BoolFromConfig(data, <<"use_moe">>, num_experts > 0)

\* value[0]: the first element of a list, the first character of a string;
\* IndexError when it is empty, KeyError on an object of a JSON file (its
\* keys are strings), TypeError on a value that cannot be indexed.
FirstItem(value) ==
    CASE value.kind = "list" ->
             IF value.v /= <<>> THEN [ok |-> TRUE, v |-> value.v[1]]
             ELSE [ok |-> FALSE, error |-> "IndexError"]
      [] value.kind = "str" ->
             IF value.v /= "" THEN [ok |-> TRUE, v |-> PyStr(CharAt(value.v, 0))]
             ELSE [ok |-> FALSE, error |-> "IndexError"]
      [] value.kind = "dict" -> [ok |-> FALSE, error |-> "KeyError"]
      [] OTHER -> [ok |-> FALSE, error |-> "TypeError"]

\* The name of the document: [ok |-> TRUE, v |-> name], or
\* [ok |-> FALSE, error |-> e] when indexing architectures raises e.
DocName(n, data) ==
    LET named == Or(n.name, Get(data, "model_type", PyNone))
        arch == Get(data, "architectures", PyList(<<PyStr("moe_model")>>))
    IN  IF Truthy(named) THEN [ok |-> TRUE, v |-> named]
        ELSE FirstItem(arch)

Metadata(n, g) ==
    [hidden_size |-> g.hidden_size,
     intermediate_size |-> g.intermediate_size,
     layers |-> g.num_layers,
     num_experts |-> g.num_experts,
     experts_per_tok |-> g.experts_per_tok,
     seq_length |-> n.seq_length,
     batch |-> n.batch,
     dtype_bytes |-> n.dtype_bytes,
     digital_chiplets |-> n.digital_chiplets,
     rram_chiplets |-> n.rram_chiplets,
     chunk_bytes |-> n.chunk_bytes]

BuildArgs(n, g, num_experts) ==
    [layers |-> g.num_layers,
     hidden_size |-> g.hidden_size,
     intermediate_size |-> g.intermediate_size,
     num_experts |-> num_experts,
     experts_per_tok |-> g.experts_per_tok,
     seq_length |-> n.seq_length,
     batch |-> n.batch,
     dtype_bytes |-> n.dtype_bytes,
     digital_chiplets |-> n.digital_chiplets,
     rram_chiplets |-> n.rram_chiplets,
     digital_latency_scale |-> n.digital_latency_scale,
     chunk_bytes |-> n.chunk_bytes]

----------------------------------------------------------------------------
(* main(): the command lines and config files it is run on *)

MaxOverride == 1
MaxConfigInt == 1

\* An override flag left out (None) or given an integer.
Overrides == {PyNone} \cup {PyInt(v) : v \in (-1)..MaxOverride}

\* What a config file holds under a key of the model shape.
ConfigValues ==
    {PyInt(v) : v \in (-1)..MaxConfigInt}
    \cup {PyBool(TRUE), PyStr("auto"), PyFloat(3, 1)}

EmptyConfig == [k \in {} |-> PyNone]

\* build_arg_parser's defaults, with every override of the model shape given.
BaseNamespace ==
    [config |-> PyNone, name |-> PyStr("spec"),
     seq_length |-> 2048, batch |-> 1, dtype_bytes |-> 2,
     layers |-> PyInt(1), hidden_size |-> PyInt(1),
     intermediate_size |-> PyInt(1), num_experts |-> PyInt(1),
     experts_per_tok |-> PyInt(1),
     digital_chiplets |-> 2, rram_chiplets |-> 8,
     digital_latency_scale |-> PyFloat(1, 0), chunk_bytes |-> 32 * 1024 * 1024]

KeySet(keys) == {keys[i] : i \in 1..Len(keys)}

\* The configs that hold none, one or two of the keys.
ConfigsOver(keys, values) ==
    {EmptyConfig}
    \cup {(k1 :> v1) @@ (k2 :> v2) :
            k1 \in KeySet(keys), k2 \in KeySet(keys), v1 \in values, v2 \in values}

\* --config left out, naming a missing file, or naming a file that holds data.
ConfigFiles(datas) ==
    {PyNone, [kind |-> "path", exists |-> FALSE, data |-> EmptyConfig]}
    \cup {[kind |-> "path", exists |-> TRUE, data |-> d] : d \in datas}

WithConfig(n, datas) == {[n EXCEPT !.config = c] : c \in ConfigFiles(datas)}

\* One quantity of the model shape at a time: its override and its config keys.
FieldFamily(field, keys) ==
    UNION {WithConfig([BaseNamespace EXCEPT ![field] = o],
                      ConfigsOver(keys, ConfigValues)) : o \in Overrides}

\* The expert count together with use_moe.
MoeFamily ==
    UNION {WithConfig([BaseNamespace EXCEPT !.num_experts = o],
                      {d @@ ("use_moe" :> u) :
                          d \in ConfigsOver(<<"num_experts">>, ConfigValues),
                          u \in {PyBool(TRUE), PyBool(FALSE), PyStr("Yes"),
                                 PyStr("off"), PyInt(1)}}) : o \in Overrides}

\* The name of the document: model_type a string, a float or an object;
\* architectures a list, a string or null.
NameFamily ==
    UNION {WithConfig([BaseNamespace EXCEPT !.name = nm],
              {EmptyConfig}
              \cup {"model_type" :> m :
                      m \in {PyStr("qwen2_moe"), PyStr(""), PyFloat(3, 1),
                             PyFloat(0, 0), PyDict(EmptyConfig)}}
              \cup {d @@ ("architectures" :> a) :
                      d \in {EmptyConfig, "model_type" :> PyStr("")},
                      a \in {PyList(<<PyStr("Qwen2MoeForCausalLM")>>),
                             PyList(<<>>), PyStr("Qwen2MoeForCausalLM"),
                             PyNone}}) :
              nm \in {PyNone, PyStr("")}}

\* The placement parameters, zero and negative values included; no config.
PlacementFamily ==
    {[BaseNamespace EXCEPT !.seq_length = sl, !.dtype_bytes = db,
                           !.digital_chiplets = dc, !.rram_chiplets = rc,
                           !.chunk_bytes = cb] :
        sl \in {0, 2}, db \in {0, 2}, dc \in {0, 2}, rc \in {-1, 8},
        cb \in {0, 32 * 1024 * 1024}}

Namespaces ==
    FieldFamily("hidden_size", HiddenKeys)
    \cup FieldFamily("intermediate_size", IntermediateKeys)
    \cup FieldFamily("layers", LayerKeys)
    \cup FieldFamily("num_experts", LocalExpertKeys \o MoeExpertKeys)
    \cup FieldFamily("experts_per_tok", TopkKeys)
    \cup MoeFamily
    \cup NameFamily
    \cup PlacementFamily

----------------------------------------------------------------------------
(* main() as a state machine: parse, generate_chiplet_model (load the config,
   resolve, check, build, return), then write the output file. *)

GenStart ==
    [pc |-> "load", config_data |-> PyNone,
     hidden_size |-> PyNone, intermediate_size |-> PyNone,
     num_layers |-> PyNone, num_experts |-> PyNone,
     experts_per_tok |-> PyNone,
     error |-> PyNone, spec |-> PyNone,
     dir |-> "absent", file |-> "absent"]

InitMain ==
    /\ BuilderIdle
    /\ planner = PlannerIdle
    /\ run = RunIdle
    /\ AuxIdle
    /\ ns \in Namespaces
    /\ gen = GenStart

\* Faulty variant: the error is recorded and the run goes on to the write.
Raise_AndGoOn(error) == gen' = [gen EXCEPT !.pc = "returned", !.error = error]

Raise(error) == gen' = [gen EXCEPT !.pc = "raised", !.error = error]

\* config_data = load_model_config(config_path)
LoadConfig ==
    /\ gen.pc = "load"
    /\ IF ~Truthy(ns.config)
       THEN gen' = [gen EXCEPT !.pc = "resolve", !.config_data = EmptyConfig]
       ELSE IF ~ns.config.exists
       THEN Raise("FileNotFoundError")
       ELSE gen' = [gen EXCEPT !.pc = "resolve", !.config_data = ns.config.data]
    /\ UNCHANGED <<builder, planner, run, ns, aux>>

\* hidden_size = ... up to experts_per_tok = ...
Resolve ==
    /\ gen.pc = "resolve"
    /\ LET hidden_size == ResolveHidden(ns, gen.config_data)
       IN  gen' = [gen EXCEPT
               !.pc = "check",
               !.hidden_size = hidden_size,
               !.intermediate_size =
                   ResolveIntermediate(ns, gen.config_data, hidden_size),
               !.num_layers = ResolveLayers(ns, gen.config_data),
               !.num_experts = ResolveNumExperts(ns, gen.config_data),
               !.experts_per_tok = ResolveExpertsPerTok(ns, gen.config_data)]
    /\ UNCHANGED <<builder, planner, run, ns, aux>>

\* if not use_moe and num_experts <= 0: raise ValueError
RaiseNoMoe ==
    /\ gen.pc = "check"
    /\ ~UseMoe(gen.config_data, gen.num_experts)
    /\ gen.num_experts <= 0
    /\ Raise("ValueError")
    /\ UNCHANGED <<builder, planner, run, ns, aux>>

\* if num_experts <= 0: num_experts = 1; then the call of build_moe_sequence
CallBuild ==
    /\ gen.pc = "check"
    /\ ~(~UseMoe(gen.config_data, gen.num_experts) /\ gen.num_experts <= 0)
    /\ LET num_experts == IF gen.num_experts <= 0 THEN 1 ELSE gen.num_experts
       IN  /\ gen' = [gen EXCEPT !.pc = "build", !.num_experts = num_experts]
           /\ args' = BuildArgs(ns, gen, num_experts)
    /\ pc' = "start"
    /\ UNCHANGED <<sequence, env, layer_idx, loc, planner, run, ns, aux>>

\* return {"name": ..., "sequence": sequence, "metadata": {...}}; the
\* document's "sequence" is the variable sequence, not copied into gen.spec.
ReturnSpec ==
    /\ gen.pc = "build"
    /\ pc = "done"
    /\ LET name == DocName(ns, gen.config_data)
       IN  IF name.ok
           THEN gen' = [gen EXCEPT
                    !.pc = "returned",
                    !.spec = [name |-> name.v, metadata |-> Metadata(ns, gen)]]
           ELSE Raise(name.error)
    /\ UNCHANGED <<builder, planner, run, ns, aux>>

\* args.output.parent.mkdir(parents=True, exist_ok=True)
MakeOutputDir ==
    /\ gen.pc = "returned"
    /\ gen' = [gen EXCEPT !.pc = "mkdir", !.dir = "present"]
    /\ UNCHANGED <<builder, planner, run, ns, aux>>

\* with args.output.open("w", encoding="utf-8") as fp
OpenOutput ==
    /\ gen.pc = "mkdir"
    /\ gen' = [gen EXCEPT !.pc = "open", !.file = "empty"]
    /\ UNCHANGED <<builder, planner, run, ns, aux>>

\* json.dump(spec, fp, indent=2); fp.write("\n"); the file is closed
DumpSpec ==
    /\ gen.pc = "open"
    /\ gen' = [gen EXCEPT !.pc = "written", !.file = "spec"]
    /\ UNCHANGED <<builder, planner, run, ns, aux>>

NextMain ==
    \/ LoadConfig
    \/ Resolve
    \/ RaiseNoMoe
    \/ CallBuild
    \/ Embed
    \/ ProjectQ
    \/ ProjectK
    \/ ProjectV
    \/ AttnScore
    \/ Softmax
    \/ AttnMix
    \/ ProjectO
    \/ PostAttention
    \/ Gating
    \/ MoeDispatch
    \/ Merge
    \/ Postprocess
    \/ ReturnSpec
    \/ MakeOutputDir
    \/ OpenOutput
    \/ DumpSpec

SpecMain == InitMain /\ [][NextMain]_vars

----------------------------------------------------------------------------
(* Reading a generated graph *)

\* The deps of a stage; a stage stored without the key has none.
DepsOf(stage) == IF "deps" \in DOMAIN stage THEN stage.deps ELSE <<>>
DepSet(stage) == {DepsOf(stage)[k] : k \in 1..Len(DepsOf(stage))}

Indices == 0..(Len(sequence) - 1)
StageAt(i) == sequence[i + 1]

HasStage(name) == \E i \in Indices : StageAt(i).name = name
IndexOf(name) == CHOOSE i \in Indices : StageAt(i).name = name

\* Layer and chunk of a per-chunk stage, read from its name.
IsChunkStage(stage) == Len(stage.name) >= 3
LayerOf(stage) == stage.name[Len(stage.name) - 1]
ChunkOf(stage) == stage.name[Len(stage.name)]
RoleOf(stage) == SubSeq(stage.name, 1, Len(stage.name) - 2)

\* i is a direct or transitive dependency of j.  Every path from j down to i
\* runs through indices strictly between them.
RECURSIVE DependsOn(_, _)
DependsOn(i, j) ==
    \E k \in DepSet(StageAt(j)) :
        \/ k = i
        \/ i < k /\ k < j /\ DependsOn(i, k)

----------------------------------------------------------------------------
(* An execution of the returned graph by a scheduler that starts a stage
   only when every stage in its deps has finished, in any order. *)

MaxRunLayers == 2
MaxRunSeqLength == 3

RunArgsSpace ==
    [layers : {MaxRunLayers}, hidden_size : {1},
     intermediate_size : {64}, num_experts : {1, MaxExperts},
     experts_per_tok : {1}, seq_length : {1, MaxRunSeqLength},
     batch : {1}, dtype_bytes : {1},
     digital_chiplets : {1}, rram_chiplets : {1, MaxChiplets},
     digital_latency_scale : {PyFloat(1, 0)}, chunk_bytes : {2}]

InitRun ==
    /\ BuilderInit(RunArgsSpace)
    /\ planner = PlannerIdle
    /\ run = RunIdle
    /\ AuxIdle
    /\ DriverIdle

StartStage(i) ==
    /\ pc = "done"
    /\ i \notin run.started
    /\ DepSet(sequence[i + 1]) \subseteq run.finished
    /\ run' = [run EXCEPT !.started = run.started \cup {i}]
    /\ UNCHANGED <<builder, planner, driver, aux>>

FinishStage(i) ==
    /\ pc = "done"
    /\ i \in run.started \ run.finished
    /\ run' = [run EXCEPT !.finished = run.finished \cup {i}]
    /\ UNCHANGED <<builder, planner, driver, aux>>

NextRun ==
    \/ Embed
    \/ ProjectQ
    \/ ProjectK
    \/ ProjectV
    \/ AttnScore
    \/ Softmax
    \/ AttnMix
    \/ ProjectO
    \/ PostAttention
    \/ Gating
    \/ MoeDispatch
    \/ Merge
    \/ Postprocess
    \/ \E i \in 0..(Len(sequence) - 1) : StartStage(i)
    \/ \E i \in 0..(Len(sequence) - 1) : FinishStage(i)

SpecRun == InitRun /\ [][NextRun]_vars

----------------------------------------------------------------------------
(* build_moe_sequence called directly, on arguments that include zero and
   negative values, the scenario of the specification's section 8, and a
   shape whose chunks exceed four transfer units. *)

WideArgsSpace ==
    [layers : {MaxLayers}, hidden_size : {-1, 0, 1},
     intermediate_size : {64}, num_experts : (-1)..MaxExperts,
     experts_per_tok : {-1, 0, MaxExperts}, seq_length : {0, MaxSeqLength},
     batch : {1}, dtype_bytes : {0, 2},
     digital_chiplets : (-1)..MaxChiplets, rram_chiplets : (-1)..MaxChiplets,
     digital_latency_scale : {PyFloat(1, 0)}, chunk_bytes : {0, 4}]

ScenarioArgs ==
    [layers |-> 1, hidden_size |-> 8, intermediate_size |-> 16,
     num_experts |-> 2, experts_per_tok |-> 1, seq_length |-> 4, batch |-> 1,
     dtype_bytes |-> 2, digital_chiplets |-> 1, rram_chiplets |-> 1,
     digital_latency_scale |-> PyFloat(1, 0), chunk_bytes |-> 1024]

\* Chunks of up to MaxSeqLength * 3000 * 2 bytes under the default chunk size.
LargeArgsSpace ==
    [layers : {1}, hidden_size : {3000, 4096},
     intermediate_size : {64}, num_experts : {1},
     experts_per_tok : {1}, seq_length : 1..MaxSeqLength,
     batch : {1}, dtype_bytes : {1, 2},
     digital_chiplets : {1}, rram_chiplets : {1},
     digital_latency_scale : {PyFloat(1, 0)},
     chunk_bytes : {8192, 32 * 1024 * 1024}]

\* More experts than RRAM chiplets, the count not a multiple of the chiplets.
UnevenExpertsArgsSpace ==
    [layers : {1}, hidden_size : {1},
     intermediate_size : {64}, num_experts : {3},
     experts_per_tok : {1, 2, 3}, seq_length : {2},
     batch : {1}, dtype_bytes : {2},
     digital_chiplets : {1}, rram_chiplets : {2},
     digital_latency_scale : {PyFloat(1, 0)}, chunk_bytes : {2}]

InitWide ==
    /\ BuilderInit(WideArgsSpace \cup {ScenarioArgs} \cup LargeArgsSpace
                   \cup UnevenExpertsArgsSpace)
    /\ planner = PlannerIdle
    /\ run = RunIdle
    /\ AuxIdle
    /\ DriverIdle

SpecWide == InitWide /\ [][Next]_vars

----------------------------------------------------------------------------
(* generate_chiplet_model called a second time in the same process: the
   caller keeps the first document and calls again on a namespace that
   resolves to the same model shape, placement parameters and name, given
   by the same route or by another one.  A call works on locals of its own;
   the variables are left here with the values the first call gave them, so
   that whatever the second call reads before assigning it is a value left
   by the first. *)

\* The ways a command line gives the model shape and the name: by flags
\* without a config file, by the first keys of a config file, or by the
\* last keys with values that json reads as floats (v + 0.5, which int()
\* truncates to v).
TwiceNamespaces ==
    LET Flag(route, v) == IF route = "flags" THEN PyInt(v) ELSE PyNone
        Config(route, l, h, k) ==
            IF route = "flags" THEN PyNone
            ELSE [kind |-> "path", exists |-> TRUE,
                  data |->
                      IF route = "config"
                      THEN [model_type |-> PyStr("qwen2_moe"),
                            hidden_size |-> PyInt(h),
                            moe_intermediate_size |-> PyInt(64),
                            num_hidden_layers |-> PyInt(l),
                            num_local_experts |-> PyInt(MaxExperts),
                            moe_topk |-> PyInt(k)]
                      ELSE [model_type |-> PyStr("qwen2_moe"),
                            dim |-> PyFloat(2 * h + 1, 1),
                            ffn_hidden_size |-> PyFloat(129, 1),
                            num_layers |-> PyFloat(2 * l + 1, 1),
                            num_experts |-> PyFloat(2 * MaxExperts + 1, 1),
                            moe_top_k |-> PyFloat(2 * k + 1, 1)]]
    IN  {[BaseNamespace EXCEPT
             !.config = Config(route, l, 2, k),
             !.name = IF route = "flags" THEN PyStr("qwen2_moe") ELSE PyNone,
             !.layers = Flag(route, l),
             !.hidden_size = Flag(route, 2),
             !.intermediate_size = Flag(route, 64),
             !.num_experts = Flag(route, MaxExperts),
             !.experts_per_tok = Flag(route, k),
             !.seq_length = s, !.dtype_bytes = 2,
             !.digital_chiplets = d, !.rram_chiplets = r, !.chunk_bytes = 4] :
            route \in {"flags", "config", "alias"},
            l \in {1, MaxLayers}, k \in {1, MaxExperts},
            s \in 1..MaxSeqLength, d \in {1, MaxChiplets}, r \in {1, MaxChiplets}}

\* What generate_chiplet_model makes of a namespace before the build: the
\* exception it raises, or the resolved model shape (the expert count after
\* the clamp to 1), the placement parameters and the name.
Resolved(n) ==
    IF Truthy(n.config) /\ ~n.config.exists
    THEN [ok |-> FALSE, error |-> "FileNotFoundError"]
    ELSE LET data == IF Truthy(n.config) THEN n.config.data ELSE EmptyConfig
             hidden_size == ResolveHidden(n, data)
             num_experts == ResolveNumExperts(n, data)
         IN  IF ~UseMoe(data, num_experts) /\ num_experts <= 0
             THEN [ok |-> FALSE, error |-> "ValueError"]
             ELSE [ok |-> TRUE,
                   hidden_size |-> hidden_size,
                   intermediate_size |-> ResolveIntermediate(n, data, hidden_size),
                   layers |-> ResolveLayers(n, data),
                   num_experts |-> IF num_experts <= 0 THEN 1 ELSE num_experts,
                   experts_per_tok |-> ResolveExpertsPerTok(n, data),
                   seq_length |-> n.seq_length, batch |-> n.batch,
                   dtype_bytes |-> n.dtype_bytes,
                   digital_chiplets |-> n.digital_chiplets,
                   rram_chiplets |-> n.rram_chiplets,
                   digital_latency_scale |-> n.digital_latency_scale,
                   chunk_bytes |-> n.chunk_bytes,
                   name |-> DocName(n, data)]

InitTwice ==
    /\ BuilderIdle
    /\ planner = PlannerIdle
    /\ run = RunIdle
    /\ AuxIdle
    /\ ns \in TwiceNamespaces
    /\ gen = GenStart

\* The dict generate_chiplet_model returns.
Document ==
    [name |-> gen.spec.name, sequence |-> sequence,
     metadata |-> gen.spec.metadata]

\* built keeps the first document and the namespace it was made from.
GenerateAgain ==
    /\ gen.pc = "returned"
    /\ built = <<>>
    /\ built' = <<Document, ns>>
    /\ ns' \in {n \in TwiceNamespaces : Resolved(n) = Resolved(ns)}
    /\ gen' = [gen EXCEPT !.pc = "load"]
    /\ UNCHANGED <<builder, planner, run, place, appended>>

NextTwice ==
    \/ LoadConfig
    \/ Resolve
    \/ CallBuild
    \/ Embed
    \/ ProjectQ
    \/ ProjectK
    \/ ProjectV
    \/ AttnScore
    \/ Softmax
    \/ AttnMix
    \/ ProjectO
    \/ PostAttention
    \/ Gating
    \/ MoeDispatch
    \/ Merge
    \/ Postprocess
    \/ ReturnSpec
    \/ GenerateAgain

SpecTwice == InitTwice /\ [][NextTwice]_vars

----------------------------------------------------------------------------
(* The owner functions called for a fixed chiplet count: chunk_digital_owner
   over the chunks of one layer or over the layers for one chunk, and the
   expert_chips entry over the experts.  A sweep calls the function on
   consecutive indices from 0; at any time the function may be called again
   on an index of an earlier call. *)

MaxSweep == 4

\* Faulty variant: the owner is the next chiplet in turn, counted over the
\* calls of the sweep.
SweepOwner_NextInTurn(p, idx) == PyMod(p.idx, p.count)

SweepOwner(p, idx) ==
    IF p.over = "chunks" THEN ChunkDigitalOwner(p.count, p.fixed, idx)
    ELSE IF p.over = "layers" THEN ChunkDigitalOwner(p.count, idx, p.fixed)
    ELSE ExpertOwner(idx, p.count)

\* returned[i + 1] is the id the sweep's call on index i returned; again is
\* the last repeated call: its index, the id its first call returned and
\* the id the repeated call returned.
InitSweep ==
    /\ BuilderIdle
    /\ planner = PlannerIdle
    /\ run = RunIdle
    /\ DriverIdle
    /\ built = <<>>
    /\ appended = [pc |-> "idle"]
    /\ \E o \in {"chunks", "layers", "experts"}, n \in 1..MaxSweep,
          f \in 0..MaxLayers, len \in 0..(MaxSweep + 1) :
           place = [pc |-> "sweep", over |-> o, count |-> n, fixed |-> f,
                    length |-> len, idx |-> 0, used |-> {},
                    returned |-> <<>>, again |-> <<>>]

SweepCall ==
    /\ place.pc = "sweep"
    /\ place.idx < place.length
    /\ place' = [place EXCEPT
           !.idx = place.idx + 1,
           !.used = place.used \cup {SweepOwner(place, place.idx)},
           !.returned = Append(place.returned, SweepOwner(place, place.idx))]
    /\ UNCHANGED <<builder, planner, run, driver, built, appended>>

SweepRepeat ==
    /\ place.pc = "sweep"
    /\ \E j \in 0..(place.idx - 1) :
           place' = [place EXCEPT
               !.again = <<j, At(place.returned, j), SweepOwner(place, j)>>]
    /\ UNCHANGED <<builder, planner, run, driver, built, appended>>

SpecSweep == InitSweep /\ [][SweepCall \/ SweepRepeat]_vars

----------------------------------------------------------------------------
(* append_stage called on its own, call after call on one list, with and
   without a dependency list.  Every call passes a dict made for it, as
   every call of the builders does. *)

MaxAppend == 3

InitAppend ==
    /\ args = PyNone
    /\ sequence = <<>>
    /\ pc = "append"
    /\ env = PyNone
    /\ layer_idx = 0
    /\ loc = LocInit
    /\ planner = PlannerIdle
    /\ run = RunIdle
    /\ DriverIdle
    /\ built = <<>>
    /\ place = [pc |-> "idle"]
    /\ appended = [pc |-> "idle", objs |-> <<>>]

\* The dicts a caller makes for a call.
NewStages ==
    {[type |-> "token_prep", name |-> <<"embed">>],
     [type |-> "transfer", name |-> <<"q", "transfer_to_rram", 0, 0>>, bytes |-> 2]}

\* The dict made for the call is a new object: object k for the k-th call.
AppendCall ==
    /\ pc = "append"
    /\ Len(sequence) < MaxAppend
    /\ \E stage \in NewStages,
          depends \in {PyNone, PyList(<<>>), PyList(<<0>>), PyList(<<0, 1>>)} :
           LET r == AppendStageObject(sequence, appended.objs,
                                      Len(sequence) + 1, stage, depends)
           IN  /\ sequence' = r.sequence
               /\ appended' = [pc |-> "returned", objs |-> r.objs,
                               stage |-> stage, depends |-> depends,
                               before |-> sequence,
                               result |-> Len(r.sequence) - 1]
    /\ UNCHANGED <<args, pc, env, layer_idx, loc, planner, run, driver, built, place>>

SpecAppend == InitAppend /\ [][AppendCall]_vars

----------------------------------------------------------------------------
(* Claims *)

Built == pc = "done"
ManyChunks == env /= PyNone /\ env.num_chunks >= 2

----------------------------------------------------------------------------
(* C1 *)

\* C1: in every graph, finished or under construction, every index in the
\* deps of the stage at position i is strictly less than i.
C1_DepsPointBackward ==
    \A i \in Indices : \A d \in DepSet(StageAt(i)) : d < i

C1_Witness ==
    /\ Built
    /\ args.layers = MaxLayers
    /\ ManyChunks
    /\ \E i \in Indices : Len(DepsOf(StageAt(i))) >= 2

----------------------------------------------------------------------------
(* C2 *)

AttentionRoles == {<<"attn_score">>, <<"softmax">>, <<"attn_mix">>}

\* C2 (as claimed): within a layer, no attention-score, softmax or
\* attention-mix stage of one chunk is a direct or transitive dependency of
\* such a stage of another chunk.
C2_AttentionChunksIndependent ==
    Built => \A i, j \in Indices :
        ( /\ IsChunkStage(StageAt(i)) /\ IsChunkStage(StageAt(j))
          /\ RoleOf(StageAt(i)) \in AttentionRoles
          /\ RoleOf(StageAt(j)) \in AttentionRoles
          /\ LayerOf(StageAt(i)) = LayerOf(StageAt(j))
          /\ ChunkOf(StageAt(i)) /= ChunkOf(StageAt(j))
          /\ i < j )
        => ~DependsOn(i, j)

----------------------------------------------------------------------------
(* C3 *)

\* C3 (as claimed): the gating (merge) stage of a chunk lists no gating
\* (merge) stage of another chunk of its layer in its deps.
C3_GatingMergeIndependent ==
    Built => \A i, j \in Indices :
        ( /\ IsChunkStage(StageAt(i)) /\ IsChunkStage(StageAt(j))
          /\ RoleOf(StageAt(i)) \in {<<"moe_gating">>, <<"moe_merge">>}
          /\ RoleOf(StageAt(j)) = RoleOf(StageAt(i))
          /\ LayerOf(StageAt(i)) = LayerOf(StageAt(j))
          /\ ChunkOf(StageAt(i)) /= ChunkOf(StageAt(j)) )
        => i \notin DepSet(StageAt(j))

\* The stages of one role and layer that a stage lists in its deps.
PeersListed(j) ==
    {i \in DepSet(StageAt(j)) :
        /\ IsChunkStage(StageAt(i))
        /\ RoleOf(StageAt(i)) = RoleOf(StageAt(j))
        /\ LayerOf(StageAt(i)) = LayerOf(StageAt(j))}

\* C3 (amended): gating and merge stages are chained chunk to chunk: the
\* stage of chunk c >= 1 lists the same-role stage of chunk c - 1, and of no
\* other chunk; the stage of chunk 0 lists none.
C3_GatingMergeChained ==
    \A j \in Indices :
        ( /\ IsChunkStage(StageAt(j))
          /\ RoleOf(StageAt(j)) \in {<<"moe_gating">>, <<"moe_merge">>} )
        => LET role == RoleOf(StageAt(j))[1]
               l == LayerOf(StageAt(j))
               c == ChunkOf(StageAt(j))
           IN  IF c = 0
               THEN PeersListed(j) = {}
               ELSE /\ HasStage(<<role, l, c - 1>>)
                    /\ PeersListed(j) = {IndexOf(<<role, l, c - 1>>)}

C3_Witness ==
    /\ Built
    /\ HasStage(<<"moe_gating", 0, 1>>)
    /\ HasStage(<<"moe_merge", 0, 1>>)

----------------------------------------------------------------------------
(* C4 *)

\* Every weight_bytes a stage carries: its own and those of its per-expert
\* sub-records.
WeightBytesIn(stage) ==
    (IF "weight_bytes" \in DOMAIN stage THEN {stage.weight_bytes} ELSE {})
    \cup (IF "experts" \in DOMAIN stage
          THEN {stage.experts[k].weight_bytes : k \in 1..Len(stage.experts)}
          ELSE {})

\* C4 (as claimed): every stage of a chunk c >= 1 that has a weight_bytes
\* field, each per-expert sub-record included, carries weight_bytes = 0.
C4_OnlyFirstChunkCarriesWeights ==
    Built => \A i \in Indices :
        (IsChunkStage(StageAt(i)) /\ ChunkOf(StageAt(i)) >= 1)
        => WeightBytesIn(StageAt(i)) \subseteq {0}

\* C4 (amended): in the RRAM sub-pipelines (the rram_linear stage of each
\* projection, the moe_linear stage and its per-expert sub-records) chunk 0
\* carries the full weight bytes and every chunk c >= 1 carries 0; an
\* attention score or mix stage carries chunk_tokens * hidden_size *
\* dtype_bytes on every chunk.
C4_WeightResidency ==
    \A i \in Indices :
        LET stage == StageAt(i)
        IN  /\ stage.type = "rram_linear" =>
                stage.weight_bytes =
                    (IF ChunkOf(stage) = 0 THEN env.projection_weight_bytes ELSE 0)
            /\ stage.type = "moe_linear" =>
                WeightBytesIn(stage) =
                    {IF ChunkOf(stage) = 0 THEN env.expert_weight_bytes ELSE 0}
            /\ stage.type = "attention" =>
                stage.weight_bytes =
                    stage.rows * env.hidden_size * env.dtype_bytes

C4_Witness ==
    /\ Built
    /\ \E i, j \in Indices :
        /\ StageAt(i).type = "rram_linear" /\ ChunkOf(StageAt(i)) = 1
        /\ StageAt(j).type = "moe_linear" /\ ChunkOf(StageAt(j)) = 1
        /\ StageAt(j).experts /= <<>>
    /\ \E i \in Indices :
        /\ StageAt(i).type = "attention" /\ ChunkOf(StageAt(i)) = 1
        /\ StageAt(i).weight_bytes > 0

----------------------------------------------------------------------------
(* C5 *)

RECURSIVE SumSeq(_)
SumSeq(seq) == IF seq = <<>> THEN 0 ELSE seq[1] + SumSeq(Tail(seq))

PlannerReturned == planner.pc = "returned"

\* C5: for tokens, hidden_size, dtype_bytes and chunk_bytes all > 0, the
\* list build_chunk_plan returns sums to tokens and has every entry >= 1.
C5_PlanCoversTokens ==
    ( /\ PlannerReturned
      /\ planner.tokens > 0 /\ planner.hidden_size > 0
      /\ planner.dtype_bytes > 0 /\ planner.chunk_bytes > 0 )
    => /\ SumSeq(planner.result) = planner.tokens
       /\ \A k \in 1..Len(planner.result) : planner.result[k] >= 1

\* A plan of several chunks whose last chunk is smaller than the others.
C5_Witness ==
    /\ PlannerReturned
    /\ Len(planner.result) >= 2
    /\ Last(planner.result) < planner.result[1]
    /\ planner.result = BuildChunkPlan(planner.tokens, planner.hidden_size,
                                       planner.dtype_bytes, planner.chunk_bytes)

----------------------------------------------------------------------------
(* C6 *)

\* C6: in the MoE dispatch of every layer, moe_linear depends on its own
\* transfer-to-RRAM, transfer-to-digital on its own moe_linear, and for a
\* chunk c >= 1 the transfer-to-RRAM lists chunk c's gating stage and the
\* transfer-to-digital of chunk c - 1.
C6_MoeDispatchOrdered ==
    \A i \in Indices :
        LET stage == StageAt(i)
            l == LayerOf(stage)
            c == ChunkOf(stage)
        IN  /\ (IsChunkStage(stage) /\ RoleOf(stage) = <<"moe">>) =>
                /\ HasStage(<<"moe_transfer_to_rram", l, c>>)
                /\ DepsOf(stage) = <<IndexOf(<<"moe_transfer_to_rram", l, c>>)>>
            /\ (IsChunkStage(stage) /\ RoleOf(stage) = <<"moe_transfer_to_digital">>) =>
                /\ HasStage(<<"moe", l, c>>)
                /\ DepsOf(stage) = <<IndexOf(<<"moe", l, c>>)>>
            /\ (IsChunkStage(stage) /\ RoleOf(stage) = <<"moe_transfer_to_rram">>
                    /\ c >= 1) =>
                /\ HasStage(<<"moe_gating", l, c>>)
                /\ HasStage(<<"moe_transfer_to_digital", l, c - 1>>)
                /\ IndexOf(<<"moe_gating", l, c>>) \in DepSet(stage)
                /\ IndexOf(<<"moe_transfer_to_digital", l, c - 1>>) \in DepSet(stage)

C6_Witness ==
    /\ Built
    /\ HasStage(<<"moe_transfer_to_digital", MaxLayers - 1, 1>>)

----------------------------------------------------------------------------
(* C7 *)

\* The MoE chunk occupations of the graph: (layer, chunk) pairs.
Occupations ==
    {<<LayerOf(StageAt(i)), ChunkOf(StageAt(i))>> :
        i \in {k \in Indices : RoleOf(StageAt(k)) = <<"moe_transfer_to_rram">>}}

OccupiedRram(o) == StageAt(IndexOf(<<"moe_transfer_to_rram", o[1], o[2]>>)).chiplet

\* From the start of the transfer-to-RRAM to the end of the transfer-to-digital.
InFlight(o) ==
    /\ IndexOf(<<"moe_transfer_to_rram", o[1], o[2]>>) \in run.started
    /\ IndexOf(<<"moe_transfer_to_digital", o[1], o[2]>>) \notin run.finished

\* C7: in any execution that starts a stage only after its deps finished, no
\* two MoE chunk occupations of the same RRAM chiplet are in flight together.
C7_OneOccupationPerRram ==
    Built =>
        \A o1, o2 \in Occupations :
            (o1 /= o2 /\ OccupiedRram(o1) = OccupiedRram(o2))
            => ~(InFlight(o1) /\ InFlight(o2))

\* The second chunk's occupation is under way on the chiplet the first
\* chunk's occupation used.
C7_Witness ==
    /\ Built
    /\ <<0, 0>> \in Occupations /\ <<0, 1>> \in Occupations
    /\ OccupiedRram(<<0, 0>>) = OccupiedRram(<<0, 1>>)
    /\ InFlight(<<0, 1>>)

----------------------------------------------------------------------------
(* C8 *)

ExpertKeys == LocalExpertKeys \o MoeExpertKeys

\* The expert counts a loaded config file states, under any of the keys.
ConfigExpertCounts ==
    IF Truthy(ns.config) /\ ns.config.exists
    THEN {IntOf(ns.config.data[k]) :
            k \in {a \in KeySet(ExpertKeys) \cap DOMAIN ns.config.data :
                      IsNumber(ns.config.data[a])}}
    ELSE {}

Produced == gen.pc \in {"returned", "mkdir", "open", "written"}

\* C8 (as claimed): when the config states an expert count and every count
\* it states is <= 0, and --num-experts is left out or 0, the run never gets
\* past the check: no graph is built and no document is returned.
C8_NonPositiveExpertsRejected ==
    ( /\ ConfigExpertCounts /= {}
      /\ \A v \in ConfigExpertCounts : v <= 0
      /\ ns.num_experts \in {PyNone, PyInt(0)} )
    => gen.pc \in {"load", "resolve", "check", "raised"}

----------------------------------------------------------------------------
(* C9 *)

\* C9 (as claimed): whenever a document is produced, the experts-per-token
\* value the graph was built with and the one echoed in metadata are <= the
\* expert count.
C9_ExpertsPerTokWithinExperts ==
    Produced =>
        /\ args.experts_per_tok <= args.num_experts
        /\ gen.spec.metadata.experts_per_tok <= gen.spec.metadata.num_experts

----------------------------------------------------------------------------
(* C10 *)

\* The value the stated precedence gives: the override when one is given,
\* else the config's value when a key of the field is present with a number,
\* else the default.
Precedence(override, keys, default) ==
    IF override /= PyNone THEN override.v
    ELSE IntFromConfig(gen.config_data, keys, PyInt(default)).v

\* C10 (as claimed): right after resolution each of the five quantities
\* equals the override if given (0 included), else the config's value if
\* present (0 included), else the default 4096, 4 x hidden, 32, 16, 2.
C10_OverrideConfigDefault ==
    gen.pc = "check" =>
        /\ gen.hidden_size =
              Precedence(ns.hidden_size, HiddenKeys, DefaultHiddenSize)
        /\ gen.intermediate_size =
              Precedence(ns.intermediate_size, IntermediateKeys,
                         IntermediateFactor * gen.hidden_size)
        /\ gen.num_layers = Precedence(ns.layers, LayerKeys, DefaultLayers)
        /\ gen.num_experts =
              Precedence(ns.num_experts, ExpertKeys, DefaultNumExperts)
        /\ gen.experts_per_tok =
              Precedence(ns.experts_per_tok, TopkKeys, DefaultExpertsPerTok)


----------------------------------------------------------------------------
(* C11 *)

\* C11 (as claimed): build_moe_sequence never ends in a division or modulo
\* by zero, whatever integers (zero and negatives included) it is given for
\* dtype_bytes, chunk_bytes, digital_chiplets, rram_chiplets, num_experts,
\* experts_per_tok and hidden_size.
C11_BuildNeverDividesByZero ==
    pc /= "raised"

----------------------------------------------------------------------------
(* C12 *)

\* The ids a stage names, by the side they are on.
DigitalIds(stage) ==
    IF stage.type = "transfer"
    THEN IF stage.direction = "digital_to_rram"
         THEN {stage.queue} ELSE {stage.chiplet}
    ELSE IF stage.type \in {"rram_linear", "moe_linear"}
              \/ "chiplet" \notin DOMAIN stage
    THEN {}
    ELSE {stage.chiplet, stage.queue}

RramIds(stage) ==
    IF stage.type = "transfer"
    THEN IF stage.direction = "digital_to_rram"
         THEN {stage.chiplet} ELSE {stage.queue}
    ELSE IF stage.type = "rram_linear" THEN {stage.chiplet}
    ELSE IF stage.type = "moe_linear"
    THEN {stage.experts[i].chiplet : i \in 1..Len(stage.experts)}
    ELSE {}

\* C12: every per-chunk stage of layer l and chunk c names the digital
\* chiplet (l + c) mod max(digital_chiplets, 1); expert e of every moe_linear
\* stage is on RRAM chiplet e mod max(rram_chiplets, 1); every digital id is
\* in [0, max(digital_chiplets, 1)) and every RRAM id in
\* [0, max(rram_chiplets, 1)), also for counts <= 0.
C12_PlacementByModulo ==
    LET d == Max(args.digital_chiplets, 1)
        r == Max(args.rram_chiplets, 1)
    IN  \A i \in Indices :
            LET stage == StageAt(i)
            IN  /\ IsChunkStage(stage) =>
                    DigitalIds(stage) \subseteq
                        {(LayerOf(stage) + ChunkOf(stage)) % d}
                /\ stage.type = "moe_linear" =>
                    \A e \in 1..Len(stage.experts) :
                        stage.experts[e].chiplet = (e - 1) % r
                /\ DigitalIds(stage) \subseteq 0..(d - 1)
                /\ RramIds(stage) \subseteq 0..(r - 1)

\* A finished graph for a non-positive RRAM chiplet count in which some
\* stage is placed on a digital chiplet other than 0.
C12_Witness ==
    /\ Built
    /\ args.rram_chiplets <= 0
    /\ \E i \in Indices : StageAt(i).type = "moe_linear"
    /\ \E i \in Indices : 1 \in DigitalIds(StageAt(i))


----------------------------------------------------------------------------
(* C13 *)

StagesOfType(type) == {i \in Indices : StageAt(i).type = type}

\* The projection proj_label of layer 0, chunk 0 is one complete triple:
\* transfer to RRAM, rram_linear on it, transfer back on the rram_linear.
CompleteTriple(proj_label) ==
    /\ Cardinality({i \in Indices : StageAt(i).type \in {"transfer", "rram_linear"}
                                    /\ StageAt(i).name[1] = proj_label}) = 3
    /\ \E i \in Indices :
          /\ i + 2 \in Indices
          /\ StageAt(i).name = <<proj_label, "transfer_to_rram", 0, 0>>
          /\ StageAt(i).type = "transfer"
          /\ StageAt(i).direction = "digital_to_rram"
          /\ StageAt(i + 1).name = <<proj_label, "proj_rram", 0, 0>>
          /\ StageAt(i + 1).type = "rram_linear"
          /\ DepsOf(StageAt(i + 1)) = <<i>>
          /\ StageAt(i + 2).name = <<proj_label, "transfer_to_digital", 0, 0>>
          /\ StageAt(i + 2).type = "transfer"
          /\ StageAt(i + 2).direction = "rram_to_digital"
          /\ DepsOf(StageAt(i + 2)) = <<i + 1>>

\* C13: for layers=1, hidden_size=8, intermediate_size=16, num_experts=2,
\* experts_per_tok=1, seq_length=4, batch=1, dtype_bytes=2, one digital and
\* one RRAM chiplet and chunk_bytes=1024, the graph has a chunk plan of one
\* chunk of 4 tokens, one token_prep stage that is the root, one complete
\* triple for each of Q, K, V and O, one moe_gating stage over 2 experts, one
\* moe_linear stage with 2 experts, and a final postprocess stage on which
\* no stage depends.
C13_Scenario ==
    (args = ScenarioArgs /\ Built) =>
        LET last == Len(sequence) - 1
        IN  /\ env.chunk_plan = <<4>>
            /\ StagesOfType("token_prep") = {0}
            /\ DepsOf(StageAt(0)) = <<>>
            /\ \A j \in Indices \ {0} :
                  DepsOf(StageAt(j)) /= <<>> /\ DependsOn(0, j)
            /\ \A p \in {"q", "k", "v", "o"} : CompleteTriple(p)
            /\ Cardinality(StagesOfType("moe_gating")) = 1
            /\ \A i \in StagesOfType("moe_gating") : StageAt(i).k = 2
            /\ Cardinality(StagesOfType("moe_linear")) = 1
            /\ \A i \in StagesOfType("moe_linear") :
                  Len(StageAt(i).experts) = 2
            /\ StageAt(last).type = "postprocess"
            /\ StageAt(last).name = <<"postprocess", 0, 0>>
            /\ \A j \in Indices : last \notin DepSet(StageAt(j))

C13_Witness ==
    /\ args = ScenarioArgs
    /\ Built
    /\ Len(sequence) = 23


----------------------------------------------------------------------------
(* C14 *)

MetadataFields ==
    {"dtype_bytes", "chunk_bytes", "digital_chiplets", "rram_chiplets",
     "num_experts", "experts_per_tok", "hidden_size", "intermediate_size",
     "layers", "seq_length", "batch"}

\* C14 (as claimed): every value of the returned document's metadata equals
\* the value build_moe_sequence worked with (its locals after the clamps),
\* also for inputs <= 0.
C14_MetadataMirrorsBuilder ==
    gen.spec /= PyNone =>
        \A f \in MetadataFields : gen.spec.metadata[f] = env[f]


----------------------------------------------------------------------------
(* C15 *)

\* Loading the config file or the expert-count check failed.
ResolutionFailed ==
    gen.pc = "raised" /\ gen.error \in {"FileNotFoundError", "ValueError"}

\* C15: main() resolves, then builds, then writes.  build_moe_sequence is
\* entered only after the resolution and the check; when loading the config
\* or the expert-count check fails, build_moe_sequence is never entered and
\* the output file is never created, and nothing happens afterwards; the
\* output file is opened only when the builder has returned and the whole
\* document has been constructed.
C15_ResolveBuildWrite ==
    /\ [](/\ pc /= "idle" => gen.pc \notin {"load", "resolve", "check"}
          /\ ResolutionFailed =>
                pc = "idle" /\ sequence = <<>> /\ gen.file = "absent"
          /\ gen.file /= "absent" => pc = "done" /\ gen.spec /= PyNone)
    /\ [][ResolutionFailed => UNCHANGED vars]_vars

C15_Witness ==
    /\ ResolutionFailed
    /\ gen.error = "ValueError"
    /\ gen.file = "absent"


----------------------------------------------------------------------------
(* C16 *)

\* ceil(bytes / 4096) for bytes >= 0: the least n with n * 4096 >= bytes.
TransferUnits(bytes) ==
    CHOOSE n \in 0..((bytes \div 4096) + 1) :
        n * 4096 >= bytes /\ (n - 1) * 4096 < bytes

\* C16: every transfer stage has latency = max(ceil(bytes / 4096), 4), bytes
\* being the stage's own bytes field.
C16_TransferLatency ==
    \A i \in Indices :
        StageAt(i).type = "transfer" =>
            /\ StageAt(i).bytes >= 0
            /\ StageAt(i).latency = Max(TransferUnits(StageAt(i).bytes), 4)

\* A finished graph with a transfer of more than four units, the last of
\* them partial.
C16_Witness ==
    /\ Built
    /\ \E i \in Indices :
          /\ StageAt(i).type = "transfer"
          /\ StageAt(i).latency > 4
          /\ StageAt(i).bytes % 4096 /= 0


----------------------------------------------------------------------------
(* C17 *)

\* C17: a second call of generate_chiplet_model on a namespace that resolves
\* to the model shape, placement parameters and name of the first, by
\* whatever route, builds the stages of the first in the same order and
\* returns an identical document: same name, same metadata, same stages
\* with the same deps, resource ids and cost fields.  Nothing the first call
\* left behind is read.
C17_SecondBuildIdentical ==
    built /= <<>> =>
        /\ Len(sequence) <= Len(built[1].sequence)
        /\ sequence = SubSeq(built[1].sequence, 1, Len(sequence))
        /\ gen.pc = "returned" => Document = built[1]

\* The first document was made from flags alone; the second call, on a
\* config file without the flags, has returned the document of a model of
\* two layers and several chunks.
C17_Witness ==
    /\ built /= <<>>
    /\ gen.pc = "returned"
    /\ ~Truthy(built[2].config)
    /\ Truthy(ns.config)
    /\ ~Truthy(ns.hidden_size)
    /\ ManyChunks
    /\ args.layers >= 2
    /\ gen.spec.name = PyStr("qwen2_moe")
    /\ Len(sequence) > 1
    /\ Document = built[1]


----------------------------------------------------------------------------
(* C18 *)

\* C18: for a chiplet count N >= 1, a sweep of an owner function over at
\* least N consecutive indices has used every id in [0, N) (and never an id
\* outside), and a call made again on the arguments of an earlier call
\* returns the id that call returned.
C18_SweepCoversChiplets ==
    place.pc = "sweep" =>
        /\ place.used \subseteq 0..(place.count - 1)
        /\ place.idx >= place.count => place.used = 0..(place.count - 1)
        /\ place.again /= <<>> => place.again[2] = place.again[3]

\* A sweep over the chunks of a layer other than 0 has covered three or
\* more chiplets, and its first call was made again after the sweep.
C18_Witness ==
    /\ place.pc = "sweep"
    /\ place.over = "chunks"
    /\ place.fixed >= 1
    /\ place.count >= 3
    /\ place.idx >= place.count
    /\ place.used = 0..(place.count - 1)
    /\ place.again /= <<>>
    /\ place.again[1] = 0
    /\ place.again[3] = PyMod(place.fixed, place.count)


----------------------------------------------------------------------------
(* C19 *)

\* C19 (as claimed): in a finished graph every stage but the last is a
\* direct or transitive dependency of the last stage; in particular every
\* attention-mix chunk of a layer is ordered before the layer's output
\* projection.
C19_EveryStageReachesLast ==
    Built =>
        LET last == Len(sequence) - 1
        IN  \A i \in Indices \ {last} : DependsOn(i, last)

----------------------------------------------------------------------------
(* C20 *)

\* The final stage of a projection of a layer: the transfer back to the
\* digital side of its last chunk.
ProjectionDone(proj_label, layer) ==
    IndexOf(<<proj_label, "transfer_to_digital", layer, env.num_chunks - 1>>)

\* C20 (as claimed): for every layer and every chunk, also chunks c >= 1,
\* the attention-score stage lists the final stages of the layer's Q and K
\* projections in its deps, and the post-attention stage lists the final
\* stage of the layer's output projection.
C20_ProducersListedOnEveryChunk ==
    \A i \in Indices :
        LET stage == StageAt(i)
        IN  /\ (IsChunkStage(stage) /\ RoleOf(stage) = <<"attn_score">>) =>
                {ProjectionDone("q", LayerOf(stage)),
                 ProjectionDone("k", LayerOf(stage))} \subseteq DepSet(stage)
            /\ (IsChunkStage(stage) /\ RoleOf(stage) = <<"post_attention">>) =>
                ProjectionDone("o", LayerOf(stage)) \in DepSet(stage)


----------------------------------------------------------------------------
(* C21 *)

\* The stage of a role for a layer and a chunk.
ChunkStage(role, layer, chunk) == IndexOf(<<role, layer, chunk>>)

\* Every stage of role `consumer` lists the same-chunk stage of `producer`.
ListsSameChunk(consumer, producer) ==
    \A i \in Indices :
        (IsChunkStage(StageAt(i)) /\ RoleOf(StageAt(i)) = <<consumer>>) =>
            /\ HasStage(<<producer, LayerOf(StageAt(i)), ChunkOf(StageAt(i))>>)
            /\ ChunkStage(producer, LayerOf(StageAt(i)), ChunkOf(StageAt(i)))
                   \in DepSet(StageAt(i))

\* C21: for every layer and chunk c, softmax c lists attention-score c;
\* attention-mix c lists softmax c and the final stage of the V projection;
\* gating c lists post-attention c; merge c lists the MoE transfer-to-digital
\* of chunk c; postprocess c lists merge c.
C21_SameChunkProducerListed ==
    /\ ListsSameChunk("softmax", "attn_score")
    /\ ListsSameChunk("attn_mix", "softmax")
    /\ \A i \in Indices :
          (IsChunkStage(StageAt(i)) /\ RoleOf(StageAt(i)) = <<"attn_mix">>) =>
              ProjectionDone("v", LayerOf(StageAt(i))) \in DepSet(StageAt(i))
    /\ ListsSameChunk("moe_gating", "post_attention")
    /\ ListsSameChunk("moe_merge", "moe_transfer_to_digital")
    /\ ListsSameChunk("postprocess", "moe_merge")

\* A finished graph of two layers whose last layer has a postprocess stage
\* for a chunk c >= 1.
C21_Witness ==
    /\ Built
    /\ \E i \in Indices :
          /\ IsChunkStage(StageAt(i))
          /\ RoleOf(StageAt(i)) = <<"postprocess">>
          /\ LayerOf(StageAt(i)) >= 1
          /\ ChunkOf(StageAt(i)) >= 1


----------------------------------------------------------------------------
(* C22 *)

Projections == {"q", "k", "v", "o"}

\* The projection whose final stage the first chunk of proj_label follows.
PrecedingProjection(proj_label) == IF proj_label = "k" THEN "q" ELSE "k"

\* C22: every projection emits, per chunk, three consecutive stages
\* transfer-to-RRAM, rram_linear, transfer-to-digital; rram_linear depends
\* on its transfer-to-RRAM and transfer-to-digital on its rram_linear; the
\* transfer-to-RRAM of a chunk c >= 1 depends on the transfer-to-digital of
\* chunk c-1, and that of chunk 0 of K (V) on the final stage of Q (K), so
\* that every stage of K (V) is ordered after the final stage of Q (K).
C22_ProjectionTriplesChained ==
    \A i \in Indices :
        LET stage == StageAt(i)
            p == stage.name[1]
            l == LayerOf(stage)
            c == ChunkOf(stage)
        IN  (stage.type = "rram_linear") =>
                /\ p \in Projections
                /\ stage.name = <<p, "proj_rram", l, c>>
                /\ i - 1 \in Indices /\ i + 1 \in Indices
                /\ StageAt(i - 1).name = <<p, "transfer_to_rram", l, c>>
                /\ StageAt(i - 1).type = "transfer"
                /\ StageAt(i + 1).name = <<p, "transfer_to_digital", l, c>>
                /\ StageAt(i + 1).type = "transfer"
                /\ DepsOf(stage) = <<i - 1>>
                /\ DepsOf(StageAt(i + 1)) = <<i>>
                /\ c >= 1 =>
                      /\ StageAt(i - 2).name = <<p, "transfer_to_digital", l, c - 1>>
                      /\ DepsOf(StageAt(i - 1)) = <<i - 2>>
                /\ (c = 0 /\ p \in {"k", "v"}) =>
                      DepsOf(StageAt(i - 1)) =
                          <<ProjectionDone(PrecedingProjection(p), l)>>
                /\ p \in {"k", "v"} =>
                      \A j \in {i - 1, i, i + 1} :
                          DependsOn(ProjectionDone(PrecedingProjection(p), l), j)

\* A finished graph whose second layer has a V projection of several chunks.
C22_Witness ==
    /\ Built
    /\ HasStage(<<"v", "proj_rram", 1, 1>>)


----------------------------------------------------------------------------
(* C23 *)

\* C23: the first stage of every layer l >= 1, the transfer-to-RRAM of chunk
\* 0 of the Q projection, depends on the postprocess stage of the final
\* chunk of layer l-1, and on nothing else; the first stage of layer 0
\* depends on the token_prep stage.
C23_LayerStartsAfterPreviousLayer ==
    \A i \in Indices :
        LET stage == StageAt(i)
        IN  (IsChunkStage(stage) /\ RoleOf(stage) = <<"q", "transfer_to_rram">>
             /\ ChunkOf(stage) = 0) =>
                IF LayerOf(stage) = 0
                THEN /\ DepsOf(stage) = <<0>>
                     /\ StageAt(0).type = "token_prep"
                ELSE /\ DepsOf(stage) = <<i - 1>>
                     /\ StageAt(i - 1).name =
                            <<"postprocess", LayerOf(stage) - 1, env.num_chunks - 1>>

\* The second layer of a graph of several chunks has been started.
C23_Witness ==
    /\ ManyChunks
    /\ HasStage(<<"q", "transfer_to_rram", 1, 0>>)


----------------------------------------------------------------------------
(* C24 *)

\* (c x experts_per_tok) mod min(num_experts, rram_chiplets)
RoundRobinOverChiplets(c) ==
    (c * args.experts_per_tok)
        % Min(args.num_experts, Max(args.rram_chiplets, 1))

\* The chiplet of expert (c x experts_per_tok) mod num_experts.
ChipletOfChunkExpert(c) ==
    ((c * args.experts_per_tok) % args.num_experts) % Max(args.rram_chiplets, 1)

MoeTarget(rule, c) ==
    IF rule = "chiplets" THEN RoundRobinOverChiplets(c)
    ELSE ChipletOfChunkExpert(c)

\* The MoE transfer stages of every layer and chunk c name the chiplet the
\* rule gives for c: the transfer-to-RRAM as its chiplet, the
\* transfer-to-digital of the same chunk as its queue.
MoeTransfersTarget(rule) ==
    \A i \in Indices :
        LET stage == StageAt(i)
        IN  /\ (IsChunkStage(stage) /\ RoleOf(stage) = <<"moe_transfer_to_rram">>) =>
                stage.chiplet = MoeTarget(rule, ChunkOf(stage))
            /\ (IsChunkStage(stage) /\ RoleOf(stage) = <<"moe_transfer_to_digital">>) =>
                /\ stage.queue = MoeTarget(rule, ChunkOf(stage))
                /\ stage.queue =
                    StageAt(ChunkStage("moe_transfer_to_rram", LayerOf(stage),
                                       ChunkOf(stage))).chiplet

\* C24 (as claimed): the MoE transfer-to-RRAM of chunk c targets RRAM chiplet
\* (c x experts_per_tok) mod min(num_experts, rram_chiplets), and the
\* transfer-to-digital of the chunk names the same chiplet as its queue.
C24_TargetRoundRobinOverChiplets ==
    MoeTransfersTarget("chiplets")

\* C24 (amended): the MoE transfer-to-RRAM of chunk c targets the chiplet
\* that hosts expert (c x experts_per_tok) mod num_experts, which is
\* ((c x experts_per_tok) mod num_experts) mod max(rram_chiplets, 1), and the
\* transfer-to-digital of the chunk names the same chiplet as its queue.
C24_TargetChipletOfChunkExpert ==
    MoeTransfersTarget("expert")

\* A finished graph with more experts than chiplets in which the two
\* formulas name different chiplets for some chunk.
C24_Witness ==
    /\ Built
    /\ args.num_experts > Max(args.rram_chiplets, 1)
    /\ \E i \in Indices :
          /\ IsChunkStage(StageAt(i))
          /\ RoleOf(StageAt(i)) = <<"moe_transfer_to_digital">>
          /\ StageAt(i).queue = ChipletOfChunkExpert(ChunkOf(StageAt(i)))
          /\ StageAt(i).queue /= RoundRobinOverChiplets(ChunkOf(StageAt(i)))


----------------------------------------------------------------------------
(* C25 *)

PositiveBudget ==
    /\ PlannerReturned
    /\ planner.tokens > 0 /\ planner.hidden_size > 0
    /\ planner.dtype_bytes > 0 /\ planner.chunk_bytes > 0

\* Bytes of the k-th chunk of the returned plan.
PlannedBytes(k) == planner.result[k] * planner.hidden_size * planner.dtype_bytes

\* C25 (as claimed): for positive tokens, hidden_size, dtype_bytes and
\* chunk_bytes every chunk of the plan has
\* chunk_tokens x hidden_size x dtype_bytes <= chunk_bytes.
C25_EveryChunkFitsBudget ==
    PositiveBudget =>
        \A k \in 1..Len(planner.result) : PlannedBytes(k) <= planner.chunk_bytes

\* C25 (amended): for positive arguments, when one token fits the budget
\* (hidden_size x dtype_bytes <= chunk_bytes) every chunk fits it; when one
\* token alone exceeds the budget every chunk holds exactly one token.
C25_ChunkFitsOrSingleToken ==
    PositiveBudget =>
        IF planner.hidden_size * planner.dtype_bytes <= planner.chunk_bytes
        THEN \A k \in 1..Len(planner.result) :
                 PlannedBytes(k) <= planner.chunk_bytes
        ELSE \A k \in 1..Len(planner.result) : planner.result[k] = 1

\* A plan of several chunks of several tokens of several bytes, within the
\* budget.
C25_Witness ==
    /\ PositiveBudget
    /\ Len(planner.result) >= 2
    /\ planner.result[1] >= 2
    /\ planner.hidden_size * planner.dtype_bytes >= 2
    /\ PlannedBytes(1) <= planner.chunk_bytes


----------------------------------------------------------------------------
(* C26 *)

\* C26 (as claimed): the chunk plan the builder emits stages from is empty
\* when seq_length x batch <= 0 and has only entries > 0 otherwise, and no
\* stage is emitted for a chunk of zero or fewer tokens.
C26_NoChunkWithoutTokens ==
    env /= PyNone =>
        /\ env.tokens <= 0 => env.chunk_plan = <<>>
        /\ \A k \in 1..Len(env.chunk_plan) : env.chunk_plan[k] > 0
        /\ \A i \in Indices :
              "rows" \in DOMAIN StageAt(i) => StageAt(i).rows > 0


----------------------------------------------------------------------------
(* C27 *)

\* The stages that are stage 0 or depend on it, directly or transitively,
\* through stages of smaller index: DependsOn(0, j) for every j at once.
\* Rooted(found, lo, hi) adds to found, which holds stage 0, the stages of
\* lo..hi, taken in increasing order, that list a stage already found.
RECURSIVE Rooted(_, _, _)
Rooted(found, lo, hi) ==
    IF lo > hi THEN found
    ELSE IF lo = hi
         THEN IF \E k \in DepSet(StageAt(lo)) : k < lo /\ k \in found
              THEN found \cup {lo}
              ELSE found
         ELSE LET mid == (lo + hi) \div 2
                  lower == Rooted(found, lo, mid)
              IN  IF 0 \in lower THEN Rooted(lower, mid + 1, hi) ELSE {}

\* C27: a graph has exactly one token_prep stage, at index 0 and with an
\* empty deps list, whatever the number of layers; every other stage has a
\* non-empty deps list and depends, directly or transitively, on it.
C27_SingleRoot ==
    sequence /= <<>> =>
        /\ StagesOfType("token_prep") = {0}
        /\ "deps" \in DOMAIN StageAt(0)
        /\ StageAt(0).deps = <<>>
        /\ \A j \in Indices \ {0} :
              /\ "deps" \in DOMAIN StageAt(j)
              /\ StageAt(j).deps /= <<>>
        /\ Rooted({0}, 1, Len(sequence) - 1) = Indices

\* A finished graph of two layers and several chunks.
C27_Witness ==
    /\ Built
    /\ args.layers >= 2
    /\ ManyChunks
    /\ Len(sequence) > 1


----------------------------------------------------------------------------
(* C28 *)

\* C28: append_stage puts the stage at the end of the list and returns its
\* position, the length of the list before the call; deps is [position - 1]
\* when no list is given and the list was non-empty, is left unset when no
\* list is given and the list was empty, and is the given list whenever one
\* is given, the empty list included; the other fields of the stage are
\* stored as given and no earlier stage is modified.
C28_AppendStageContract ==
    appended.pc = "returned" =>
        LET position == Len(appended.before)
            stored == sequence[position + 1]
        IN  /\ appended.result = position
            /\ Len(sequence) = position + 1
            /\ SubSeq(sequence, 1, position) = appended.before
            /\ \A f \in DOMAIN appended.stage : stored[f] = appended.stage[f]
            /\ DOMAIN stored \subseteq DOMAIN appended.stage \cup {"deps"}
            /\ IF appended.depends = PyNone
               THEN IF position > 0
                    THEN "deps" \in DOMAIN stored /\ stored.deps = <<position - 1>>
                    ELSE "deps" \notin DOMAIN stored
               ELSE "deps" \in DOMAIN stored /\ stored.deps = appended.depends.v

\* A call without a dependency list on a list of two stages, the earlier of
\* which was given the empty list.
C28_Witness ==
    /\ appended.pc = "returned"
    /\ appended.depends = PyNone
    /\ Len(appended.before) = 2
    /\ appended.before[2].deps = <<>>
    /\ sequence[3].deps = <<1>>


----------------------------------------------------------------------------
(* C29 *)

\* The stages of a layer whose name carries the label.
StagesOfRole(role, layer) ==
    {i \in Indices : /\ IsChunkStage(StageAt(i))
                     /\ RoleOf(StageAt(i)) = role
                     /\ LayerOf(StageAt(i)) = layer}

\* The 22 roles of a layer: 12 of the projections, attention score and mix,
\* softmax, post-attention, gating, three of the MoE dispatch, merge and
\* postprocess.
LayerRoles ==
    {<<p, r>> : p \in Projections,
                r \in {"transfer_to_rram", "proj_rram", "transfer_to_digital"}}
    \cup {<<"attn_score">>, <<"attn_mix">>, <<"softmax">>, <<"post_attention">>,
          <<"moe_gating">>, <<"moe_transfer_to_rram">>, <<"moe">>,
          <<"moe_transfer_to_digital">>, <<"moe_merge">>, <<"postprocess">>}

\* C29: a finished graph of L layers over a chunk plan of C chunks has
\* 1 + 22 x C x L stages: the token_prep stage and, in every layer, exactly
\* C stages of each of the 22 roles, one per chunk.
C29_StageCount ==
    Built =>
        LET L == Max(args.layers, 0)
            C == env.num_chunks
        IN  /\ Cardinality(LayerRoles) = 22
            /\ Len(sequence) = 1 + 22 * C * L
            /\ Cardinality(StagesOfType("token_prep")) = 1
            /\ \A l \in 0..(L - 1) : \A role \in LayerRoles :
                  /\ Cardinality(StagesOfRole(role, l)) = C
                  /\ {ChunkOf(StageAt(i)) : i \in StagesOfRole(role, l)}
                         = 0..(C - 1)

\* A finished graph of two layers and three chunks: 133 stages.
C29_Witness ==
    /\ Built
    /\ args.layers = 2
    /\ env.num_chunks = 3
    /\ Len(sequence) = 133


----------------------------------------------------------------------------
(* C30 *)

\* The transfer sub-pipelines of a layer and the names of their transfers.
TransferPipelines == Projections \cup {"moe"}

TransferName(pipeline, direction, layer, chunk) ==
    IF pipeline = "moe"
    THEN <<"moe_transfer_to_" \o direction, layer, chunk>>
    ELSE <<pipeline, "transfer_to_" \o direction, layer, chunk>>

TransferBytes(pipeline, direction, layer, chunk) ==
    StageAt(IndexOf(TransferName(pipeline, direction, layer, chunk))).bytes

\* Bytes moved to RRAM by the chunks 0..chunk of a sub-pipeline.
RECURSIVE BytesToRram(_, _, _)
BytesToRram(pipeline, layer, chunk) ==
    IF chunk < 0 THEN 0
    ELSE TransferBytes(pipeline, "rram", layer, chunk)
             + BytesToRram(pipeline, layer, chunk - 1)

\* C30: for positive tokens, hidden_size and dtype_bytes, in every layer and
\* in each of its transfer sub-pipelines (the four projections and the MoE
\* dispatch) the bytes of the transfer-to-RRAM stages of all chunks sum to
\* seq_length x batch x hidden_size x dtype_bytes, and the transfer-to-RRAM
\* and the transfer-to-digital of a chunk carry the same bytes.
C30_TransferBytesCoverActivations ==
    ( /\ Built
      /\ args.seq_length * args.batch > 0
      /\ args.hidden_size > 0 /\ args.dtype_bytes > 0 )
    => \A l \in 0..(args.layers - 1) : \A p \in TransferPipelines :
          /\ BytesToRram(p, l, env.num_chunks - 1) =
                args.seq_length * args.batch * args.hidden_size * args.dtype_bytes
          /\ \A c \in 0..(env.num_chunks - 1) :
                TransferBytes(p, "rram", l, c) = TransferBytes(p, "digital", l, c)

\* A finished graph whose chunks differ in size.
C30_Witness ==
    /\ Built
    /\ args.layers >= 1
    /\ env.num_chunks >= 2
    /\ TransferBytes("moe", "rram", 0, 0)
           > TransferBytes("moe", "rram", 0, env.num_chunks - 1)
    /\ BytesToRram("moe", 0, env.num_chunks - 1) = env.activation_bytes_total

====
